---------------------------- MODULE Spec2Model ----------------------------
(***************************************************************************)
(* Model of the Industrializer tick engine (src/src/economy.ts).           *)
(*                                                                         *)
(* Numbers.  Resource amounts are JavaScript doubles in the source; they   *)
(* are modelled as exact rationals <<n, d>> (d > 0, lowest terms), so the  *)
(* model computes what the source computes up to floating-point rounding.  *)
(* Path costs are sums of the step costs 1.0, 0.5, 0.1, 0.2, 0.05 and 0;   *)
(* they are modelled as integers counting hundredths (1.0 = 100).          *)
(* Cells are axial coordinates <<q, r>>; an edge key is the ordered pair   *)
(* of its two cells.                                                       *)
(***************************************************************************)
EXTENDS Integers, Sequences, FiniteSets, TLC

(***************************************************************************)
(* Exact rational arithmetic                                               *)
(***************************************************************************)
Abs(x) == IF x < 0 THEN -x ELSE x

RECURSIVE GCD(_, _)
GCD(a, b) == IF b = 0 THEN a ELSE GCD(b, a % b)

Q(n, d) == LET g == GCD(Abs(n), d) IN <<n \div g, d \div g>>

Zero == <<0, 1>>
One == <<1, 1>>

\* sums and comparisons go through the least common denominator and
\* products cancel crosswise, which keeps the intermediate integers small
RAdd(a, b) ==
  LET g == GCD(a[2], b[2])
  IN Q(a[1] * (b[2] \div g) + b[1] * (a[2] \div g), (a[2] \div g) * b[2])
RSub(a, b) == RAdd(a, <<-b[1], b[2]>>)
RMul(a, b) ==
  LET g1 == GCD(Abs(a[1]), b[2])
      g2 == GCD(Abs(b[1]), a[2])
  IN Q((a[1] \div g1) * (b[1] \div g2), (a[2] \div g2) * (b[2] \div g1))
\* division by a positive rational
RDiv(a, b) == RMul(a, <<b[2], b[1]>>)
RLt(a, b) ==
  LET g == GCD(a[2], b[2]) IN a[1] * (b[2] \div g) < b[1] * (a[2] \div g)
RLe(a, b) ==
  LET g == GCD(a[2], b[2]) IN a[1] * (b[2] \div g) <= b[1] * (a[2] \div g)
RMin(a, b) == IF RLe(a, b) THEN a ELSE b
RMax(a, b) == IF RLe(a, b) THEN b ELSE a
RPos(a) == a[1] > 0

(***************************************************************************)
(* Resource maps: JavaScript objects { resource: amount }                  *)
(***************************************************************************)
EmptyMap == [x \in {} |-> Zero]

\* (map[res] || 0)
Get(m, res) == IF res \in DOMAIN m THEN m[res] ELSE Zero

\* map[res] = v
Put(m, res, v) == [x \in (DOMAIN m) \cup {res} |-> IF x = res THEN v ELSE m[x]]

\* a map from a sequence of <<resource, amount>> entries
MapOf(entries) ==
  [x \in {entries[i][1] : i \in DOMAIN entries} |->
     entries[CHOOSE i \in DOMAIN entries : entries[i][1] = x][2]]

\* Object.keys of a catalog entry list, in source order
KeysOf(entries) == [i \in DOMAIN entries |-> entries[i][1]]

addToMap(map, key, amount) == Put(map, key, RAdd(Get(map, key), amount))

(***************************************************************************)
(* The building catalog (the buildings the modelled maps use)              *)
(***************************************************************************)
BuildingIds ==
  {"forager", "wood_camp", "stone_camp", "workshop", "farm", "lumber_mill",
   "settlement", "trade_depot", "station", "export_port", "quarry",
   "manufactory"}

BUILDINGS(id) ==
  CASE id = "forager" ->
         [inputs |-> << <<"population", <<1, 10>>>> >>,
          outputs |-> << <<"food", <<3, 10>>>> >>,
          cost |-> << <<"wood", <<5, 1>>>> >>,
          upgradesTo |-> "farm",
          upgradeCost |-> << <<"wood", <<20, 1>>>>, <<"stone", <<10, 1>>>> >>]
    [] id = "wood_camp" ->
         [inputs |-> << <<"population", <<1, 10>>>> >>,
          outputs |-> << <<"wood", <<3, 10>>>> >>,
          cost |-> << >>,
          upgradesTo |-> "lumber_mill",
          upgradeCost |-> << <<"wood", <<50, 1>>>>, <<"tools", <<5, 1>>>> >>]
    [] id = "stone_camp" ->
         [inputs |-> << <<"population", <<1, 10>>>> >>,
          outputs |-> << <<"stone", <<3, 10>>>> >>,
          cost |-> << <<"wood", <<10, 1>>>> >>,
          upgradesTo |-> "quarry",
          upgradeCost |-> << <<"wood", <<50, 1>>>>, <<"tools", <<10, 1>>>> >>]
    [] id = "workshop" ->
         [inputs |-> << <<"wood", <<1, 2>>>>, <<"stone", <<1, 4>>>>,
                        <<"population", <<1, 10>>>> >>,
          outputs |-> << <<"tools", <<1, 10>>>> >>,
          cost |-> << <<"wood", <<20, 1>>>> >>,
          upgradesTo |-> "tool_factory",
          upgradeCost |-> << <<"stone", <<100, 1>>>>, <<"iron_ingot", <<20, 1>>>> >>]
    [] id = "farm" ->
         [inputs |-> << <<"population", <<1, 10>>>>, <<"tools", <<1, 10>>>> >>,
          outputs |-> << <<"food", <<3, 2>>>> >>,
          cost |-> << <<"wood", <<50, 1>>>>, <<"stone", <<20, 1>>>> >>,
          upgradesTo |-> "industrial_farm",
          upgradeCost |-> << <<"steel", <<150, 1>>>>, <<"concrete", <<75, 1>>>>,
                             <<"machinery", <<30, 1>>>> >>]
    [] id = "lumber_mill" ->
         [inputs |-> << <<"population", <<1, 5>>>>, <<"tools", <<1, 5>>>> >>,
          outputs |-> << <<"wood", <<2, 1>>>> >>,
          cost |-> << <<"wood", <<100, 1>>>>, <<"tools", <<10, 1>>>> >>,
          upgradesTo |-> "automated_sawmill",
          upgradeCost |-> << <<"steel", <<150, 1>>>>, <<"concrete", <<50, 1>>>>,
                             <<"machinery", <<30, 1>>>> >>]
    [] id = "settlement" ->
         [inputs |-> << <<"food", <<2, 1>>>> >>,
          outputs |-> << <<"population", <<3, 4>>>> >>,
          cost |-> << <<"wood", <<20, 1>>>> >>,
          upgradesTo |-> "town",
          upgradeCost |-> << <<"wood", <<100, 1>>>>, <<"stone", <<50, 1>>>> >>]
    [] id = "trade_depot" ->
         [inputs |-> << <<"population", <<1, 5>>>> >>,
          outputs |-> << >>,
          cost |-> << <<"wood", <<15, 1>>>> >>,
          upgradesTo |-> "station",
          upgradeCost |-> << <<"stone", <<150, 1>>>>, <<"iron_ingot", <<50, 1>>>> >>]
    [] id = "station" ->
         [inputs |-> << <<"population", <<1, 2>>>>, <<"tools", <<1, 10>>>> >>,
          outputs |-> << >>,
          cost |-> << <<"stone", <<150, 1>>>>, <<"iron_ingot", <<50, 1>>>> >>,
          upgradesTo |-> "none",
          upgradeCost |-> << >>]
    [] id = "export_port" ->
         [inputs |-> << <<"goods", <<5, 1>>>>, <<"tools", <<1, 5>>>>,
                        <<"population", <<1, 1>>>> >>,
          outputs |-> << >>,
          cost |-> << <<"concrete", <<150, 1>>>>, <<"steel", <<75, 1>>>> >>,
          upgradesTo |-> "none",
          upgradeCost |-> << >>]
    [] id = "manufactory" ->
         [inputs |-> << <<"iron_ingot", <<2, 1>>>>, <<"wood", <<2, 1>>>>,
                        <<"tools", <<1, 2>>>>, <<"machinery", <<1, 2>>>>,
                        <<"population", <<2, 1>>>> >>,
          outputs |-> << <<"goods", <<3, 2>>>> >>,
          cost |-> << <<"steel", <<150, 1>>>>, <<"concrete", <<75, 1>>>>,
                      <<"machinery", <<20, 1>>>> >>,
          upgradesTo |-> "assembly_line",
          upgradeCost |-> << <<"steel", <<300, 1>>>>, <<"concrete", <<150, 1>>>>,
                             <<"machinery", <<100, 1>>>> >>]
    [] id = "quarry" ->
         [inputs |-> << <<"population", <<1, 2>>>>, <<"tools", <<1, 5>>>> >>,
          outputs |-> << <<"stone", <<2, 1>>>> >>,
          cost |-> << <<"wood", <<100, 1>>>>, <<"tools", <<10, 1>>>> >>,
          upgradesTo |-> "automated_quarry",
          upgradeCost |-> << <<"steel", <<150, 1>>>>, <<"concrete", <<75, 1>>>>,
                             <<"machinery", <<30, 1>>>> >>]

\* HUB_RADIUS[buildingId], -1 when undefined
HUB_RADIUS(id) ==
  CASE id = "trade_depot" -> 2
    [] id = "station" -> 3
    [] id = "export_port" -> 4
    [] OTHER -> -1

\* step costs in hundredths
INFRA_STEP_COSTS(type) ==
  CASE type = "road" -> 50
    [] type = "rail" -> 10
    [] type = "canal" -> 100
    [] type = "power_line" -> 100
    [] type = "hv_line" -> 100

INFRASTRUCTURE_COSTS(type) ==
  CASE type = "road" -> << >>
    [] type = "rail" -> << <<"iron_ingot", <<10, 1>>>>, <<"stone", <<20, 1>>>> >>
    [] type = "canal" -> << <<"stone", <<40, 1>>>>, <<"tools", <<10, 1>>>>,
                            <<"concrete", <<20, 1>>>> >>
    [] type = "power_line" -> << <<"iron_ingot", <<10, 1>>>>, <<"tools", <<5, 1>>>> >>
    [] type = "hv_line" -> << <<"steel", <<30, 1>>>>, <<"concrete", <<10, 1>>>>,
                              <<"machinery", <<5, 1>>>> >>

CONVERGENCE_ITERATIONS == 3
BASE_POPULATION == <<1, 10>>
CONSTRUCTION_RESERVE == <<1, 10>>
MIN_PRODUCTION_FLOOR == <<1, 10>>
\* 0.05, in hundredths
HUB_HOP_COST == 5
\* the cost of an unreached cell: distances.get(key) ?? Infinity
Infinity == 1000000

ALL_EXPORTABLE_RESOURCES ==
  <<"food", "wood", "stone", "iron_ore", "coal", "iron_ingot", "tools",
    "concrete", "steel", "machinery", "goods", "electricity">>

(***************************************************************************)
(* Hex geometry (src/src/hexUtils.ts)                                      *)
(***************************************************************************)
HEX_DIRECTIONS == << <<1, 0>>, <<1, -1>>, <<0, -1>>, <<-1, 0>>, <<-1, 1>>, <<0, 1>> >>

getNeighbors(c) ==
  [i \in 1..6 |-> <<c[1] + HEX_DIRECTIONS[i][1], c[2] + HEX_DIRECTIONS[i][2]>>]

NeighborSet(c) == {getNeighbors(c)[i] : i \in 1..6}

getEdgeKey(a, b) ==
  IF a[1] < b[1] \/ (a[1] = b[1] /\ a[2] < b[2]) THEN <<a, b>> ELSE <<b, a>>

isPowerInfra(type) == type = "power_line" \/ type = "hv_line"

\* an edge is [transport |-> type or "none", power |-> type or "none"]
NoEdge == [transport |-> "none", power |-> "none"]

edgeHasType(edge, type) ==
  IF isPowerInfra(type) THEN edge.power = type ELSE edge.transport = type

setEdgeType(edge, type) ==
  IF isPowerInfra(type) THEN [edge EXCEPT !.power = type]
  ELSE [edge EXCEPT !.transport = type]

hexDistance(a, b) ==
  LET dq == a[1] - b[1]
      dr == a[2] - b[2]
      m1 == IF Abs(dq) >= Abs(dr) THEN Abs(dq) ELSE Abs(dr)
  IN IF m1 >= Abs(dq + dr) THEN m1 ELSE Abs(dq + dr)

getHexesInRadius(c, radius) ==
  {h \in {<<c[1] + dq, c[2] + dr>> : dq \in -radius..radius, dr \in -radius..radius} :
     hexDistance(h, c) <= radius}

\* hexKey(q, r) = `${q},${r}` as a sequence of character codes, for the
\* string comparison of two keys
RECURSIVE Digits(_)
Digits(n) == IF n < 10 THEN <<48 + n>> ELSE Append(Digits(n \div 10), 48 + (n % 10))

NumStr(n) == IF n < 0 THEN <<45>> \o Digits(-n) ELSE Digits(n)

hexKey(c) == NumStr(c[1]) \o <<44>> \o NumStr(c[2])

RECURSIVE StrLess(_, _)
StrLess(s, t) ==
  IF t = << >> THEN FALSE
  ELSE IF s = << >> THEN TRUE
  ELSE IF Head(s) # Head(t) THEN Head(s) < Head(t)
  ELSE StrLess(Tail(s), Tail(t))

(***************************************************************************)
(* The map.  A grid cell is                                                *)
(*   [buildingId, constructionSite, prioritized, paused, flowState]        *)
(* with buildingId "none" for no building and constructionSite / flowState *)
(* a sequence of length 0 (undefined) or 1.                                *)
(***************************************************************************)
\* number of cells of the modelled map: a row of the hex grid
GridLen == 10

\* Object.keys(grid): the cells in insertion order
GridKeys == [i \in 1..GridLen |-> <<i - 1, 0>>]

Cells == {GridKeys[i] : i \in 1..GridLen}

\* a second map: the cells within PatchRadius of PatchCenter.  Its keys have
\* one- and two-digit columns, so that their order as strings is not their
\* order as numbers
PatchRadius == 2

PatchCenter == <<10, 2>>

PatchCells == getHexesInRadius(PatchCenter, PatchRadius)

\* a third map: a row of up to ZoneRowMax cells, long enough for zones
ZoneRowMax == 45

ZoneRow(n) == {<<i, 0>> : i \in 0..(n - 1)}

\* the cells whose terrain is water
WaterCells == {<<10, 1>>}

\* getTerrains(q, r): the terrain tags of a cell (none outside the maps)
getTerrains(c) ==
  IF c \in WaterCells THEN <<"water">>
  ELSE IF c \in Cells \cup PatchCells \cup ZoneRow(ZoneRowMax) THEN <<"plains">>
  ELSE << >>

hasSite(hex) == hex.constructionSite # << >>
siteOf(hex) == hex.constructionSite[1]

\* Set of cells reachable from the cells of `frontier` by steps between
\* neighbouring cells of `allowed` (the BFS loops of the analyzers)
RECURSIVE Reach(_, _, _)
Reach(frontier, seen, allowed) ==
  IF frontier = {} THEN seen
  ELSE LET next == {n \in allowed : n \notin seen /\ \E c \in frontier : n \in NeighborSet(c)}
       IN Reach(next, seen \cup next, allowed)

\* BFS score of computeClusters from one member: each other member at BFS
\* distance d inside the cluster adds 0.5^(d-1)
RECURSIVE ClusterScore(_, _, _, _)
ClusterScore(frontier, seen, cluster, weight) ==
  LET next == {n \in cluster : n \notin seen /\ \E c \in frontier : n \in NeighborSet(c)}
  IN IF next = {} THEN Zero
     ELSE RAdd(RMul(Q(Cardinality(next), 1), weight),
               ClusterScore(next, seen \cup next, cluster, RMul(weight, Q(1, 2))))

\* no building type counted as an upgrade of another
noUpgradeChain(id) == {}

RECURSIVE upgradeChain(_)
upgradeChain(id) ==
  IF id \notin BuildingIds THEN {}
  ELSE LET chain(to) == IF to = "none" THEN {} ELSE {to} \cup upgradeChain(to)
       IN chain(BUILDINGS(id).upgradesTo)

isHubBuilding(id) == HUB_RADIUS(id) >= 0

\* quantization of the cluster score
clusterQuantize(score) ==
  IF RLe(<<5, 1>>, score) THEN One
  ELSE IF RLe(<<3, 1>>, score) THEN <<1, 2>>
  ELSE IF RLe(<<2, 1>>, score) THEN <<1, 4>>
  ELSE IF RLe(One, score) THEN <<1, 10>>
  ELSE Zero

\* computeClusters(grid).get(key) for a cell holding a non-hub building
computeClusters(g, key) ==
  LET type == g[key].buildingId
      allowed == {c \in DOMAIN g : g[c].buildingId # "none" /\
                    (g[c].buildingId = type \/ isHubBuilding(g[c].buildingId)
                       \/ g[c].buildingId \in upgradeChain(type))}
      entry(cluster) ==
        IF type = "none" \/ isHubBuilding(type) \/ Cardinality(cluster) <= 1
          THEN [size |-> 1, bonus |-> Zero]
          ELSE [size |-> Cardinality(cluster),
                bonus |-> clusterQuantize(ClusterScore({key}, {key}, cluster, One))]
  IN entry(Reach({key}, {key}, allowed))

\* ZONE_TYPES reverse lookup: buildingId -> zone type
buildingToZone(id) ==
  CASE id \in {"forager", "farm", "wood_camp", "lumber_mill"} -> "agricultural"
    [] id \in {"stone_camp", "quarry"} -> "mining"
    [] id \in {"workshop", "manufactory", "export_port"} -> "industry"
    [] id \in {"settlement"} -> "residential"
    [] OTHER -> "none"

ZoneTypeNames == {"agricultural", "mining", "industry", "residential"}

isWildcard(id) == id = "university" \/ isHubBuilding(id)

\* membership that lets paused buildings and construction sites in
zoneMemberAll(g, c, zt) ==
  /\ g[c].buildingId # "none"
  /\ (isWildcard(g[c].buildingId) \/ buildingToZone(g[c].buildingId) = zt)

\* members of zone components of type zt
zoneMember(g, c, zt) ==
  /\ g[c].buildingId # "none" /\ ~hasSite(g[c]) /\ ~g[c].paused
  /\ (isWildcard(g[c].buildingId) \/ buildingToZone(g[c].buildingId) = zt)

\* the zone component of type zt that contains key: its bonus, its number
\* of universities and its number of non-wildcard members
zoneComponent(g, key, zt) ==
  LET comp == Reach({key}, {key}, {c \in DOMAIN g : zoneMember(g, c, zt)})
      nonWild == {c \in comp : ~isWildcard(g[c].buildingId)}
      n == Cardinality(nonWild)
      types == {g[c].buildingId : c \in nonWild}
  IN [bonus |-> IF n >= 21 /\ Cardinality(types) >= 2 THEN RMin(One, Q(n - 21, 21)) ELSE Zero,
      uniCount |-> Cardinality({c \in comp : g[c].buildingId = "university"}),
      size |-> n]

ZoneTypeSeq == <<"agricultural", "mining", "industry", "residential">>

\* computeSuperclusters(grid).get(key), [size |-> -1] standing for undefined:
\* the zone types are visited in order and a component replaces the entry
\* recorded so far when it has more non-wildcard members
RECURSIVE superclusterFold(_, _, _, _)
superclusterFold(g, key, i, prev) ==
  IF i > Len(ZoneTypeSeq) THEN prev
  ELSE IF ~zoneMember(g, key, ZoneTypeSeq[i]) THEN superclusterFold(g, key, i + 1, prev)
  ELSE LET z == zoneComponent(g, key, ZoneTypeSeq[i])
       IN IF prev.size = -1 THEN superclusterFold(g, key, i + 1, z)
          ELSE IF z.size > prev.size
            THEN superclusterFold(g, key, i + 1, [z EXCEPT !.bonus = RMax(prev.bonus, z.bonus)])
          ELSE superclusterFold(g, key, i + 1, prev)

computeSuperclusters(g, key) ==
  superclusterFold(g, key, 1, [bonus |-> Zero, uniCount |-> 0, size |-> -1])

\* 0.15
ZONE_OUTPUT_BONUS == <<3, 20>>
ZONE_INPUT_REDUCTION == <<1, 10>>

(***************************************************************************)
(* precomputeDistances: Dijkstra from each source, capped at maxCost       *)
(***************************************************************************)
\* cost of the step over edge ek for the category, with the overrides
stepCost(edges, ek, category, overrides) ==
  LET edge == IF ek \in DOMAIN edges THEN edges[ek] ELSE NoEdge
      edgeType == IF category = "power" THEN edge.power ELSE edge.transport
  IN IF edgeType = "none" THEN 100
     ELSE IF edgeType \in DOMAIN overrides THEN overrides[edgeType]
     ELSE INFRA_STEP_COSTS(edgeType)

\* the relaxations without the cap: every neighbour, port and hub hop offered
relaxationsUncapped(cur, cost, cells, edges, maxCost, ports, overrides, hubZones, category) ==
  {<<n, cost + stepCost(edges, getEdgeKey(cur, n), category, overrides)>> :
     n \in NeighborSet(cur) \cap cells}
    \cup (IF cur \in ports THEN {<<p, cost>> : p \in (ports \cap cells) \ {cur}} ELSE {})
    \cup {<<hubZones[i].hubKey, cost + HUB_HOP_COST>> :
            i \in {j \in DOMAIN hubZones : cur \in hubZones[j].hexKeys
                     /\ hubZones[j].hubKey \in cells /\ hubZones[j].hubKey # cur}}
    \cup UNION {{<<d, cost + HUB_HOP_COST>> : d \in (hubZones[i].hexKeys \cap cells) \ {cur}} :
                  i \in {j \in DOMAIN hubZones : hubZones[j].hubKey = cur}}

\* the relaxations with hub hops from a zone cell to its hub only
relaxationsOneWay(cur, cost, cells, edges, maxCost, ports, overrides, hubZones, category) ==
  LET steps == {<<n, cost + stepCost(edges, getEdgeKey(cur, n), category, overrides)>> :
                  n \in NeighborSet(cur) \cap cells}
      jumps == IF cur \in ports THEN {<<p, cost>> : p \in (ports \cap cells) \ {cur}} ELSE {}
      toHub == {<<hubZones[i].hubKey, cost + HUB_HOP_COST>> :
                  i \in {j \in DOMAIN hubZones : cur \in hubZones[j].hexKeys
                           /\ hubZones[j].hubKey \in cells /\ hubZones[j].hubKey # cur}}
  IN {o \in steps \cup toHub : o[2] <= maxCost} \cup jumps

\* the relaxations of one popped node: the set of <<cell, cost>> offers
relaxations(cur, cost, cells, edges, maxCost, ports, overrides, hubZones, category) ==
  LET steps == {<<n, cost + stepCost(edges, getEdgeKey(cur, n), category, overrides)>> :
                  n \in NeighborSet(cur) \cap cells}
      jumps == IF cur \in ports THEN {<<p, cost>> : p \in (ports \cap cells) \ {cur}} ELSE {}
      toHub == {<<hubZones[i].hubKey, cost + HUB_HOP_COST>> :
                  i \in {j \in DOMAIN hubZones : cur \in hubZones[j].hexKeys
                           /\ hubZones[j].hubKey \in cells /\ hubZones[j].hubKey # cur}}
      fromHub == UNION {{<<d, cost + HUB_HOP_COST>> : d \in (hubZones[i].hexKeys \cap cells) \ {cur}} :
                  i \in {j \in DOMAIN hubZones : hubZones[j].hubKey = cur}}
  IN {o \in steps \cup toHub \cup fromHub : o[2] <= maxCost} \cup jumps

\* MinHeap: the array of [key, cost] nodes, the root at index 1 (index 0 in
\* the source), a node at i above its children at 2i and 2i + 1
RECURSIVE bubbleUp(_, _)
bubbleUp(d, i) ==
  IF i <= 1 \/ d[i \div 2].cost <= d[i].cost THEN d
  ELSE bubbleUp([d EXCEPT ![i \div 2] = d[i], ![i] = d[i \div 2]], i \div 2)

RECURSIVE sinkDown(_, _)
sinkDown(d, i) ==
  LET l == 2 * i
      r == 2 * i + 1
      m1 == IF l <= Len(d) /\ d[l].cost < d[i].cost THEN l ELSE i
      min == IF r <= Len(d) /\ d[r].cost < d[m1].cost THEN r ELSE m1
  IN IF min = i THEN d
     ELSE sinkDown([d EXCEPT ![min] = d[i], ![i] = d[min]], min)

heapPush(d, node) == bubbleUp(Append(d, node), Len(d) + 1)

\* the heap after pop(); the node popped is d[1]
heapPop(d) ==
  IF Len(d) = 1 THEN << >>
  ELSE sinkDown([SubSeq(d, 1, Len(d) - 1) EXCEPT ![1] = d[Len(d)]], 1)

\* the members of a set in a fixed order: the order in which a loop visits
\* the neighbours, ports and zone cells does not change the distances
RECURSIVE SeqOf(_)
SeqOf(S) ==
  IF S = {} THEN << >>
  ELSE LET x == CHOOSE y \in S : TRUE IN <<x>> \o SeqOf(S \ {x})

\* the relaxations of one popped node applied in turn: a strictly better
\* cost is recorded and pushed; st is [distances, queue]
RECURSIVE relaxAll(_, _)
relaxAll(st, offers) ==
  IF offers = << >> THEN st
  ELSE LET o == Head(offers)
       IN IF o[2] < st.distances[o[1]]
            THEN relaxAll([distances |-> [st.distances EXCEPT ![o[1]] = o[2]],
                           queue |-> heapPush(st.queue, [key |-> o[1], cost |-> o[2]])],
                          Tail(offers))
          ELSE relaxAll(st, Tail(offers))

RECURSIVE dijkstra(_, _, _, _, _, _, _, _, _)
dijkstra(distances, queue, cells, edges, maxCost, ports, overrides, hubZones, category) ==
  IF queue = << >> THEN distances
  ELSE LET current == queue[1]
           continue(st) == dijkstra(st.distances, st.queue, cells, edges, maxCost, ports,
                                    overrides, hubZones, category)
       IN IF current.cost > distances[current.key]
            THEN continue([distances |-> distances, queue |-> heapPop(queue)])
          ELSE continue(relaxAll([distances |-> distances, queue |-> heapPop(queue)],
                                 SeqOf(relaxations(current.key, current.cost, cells, edges,
                                                   maxCost, ports, overrides, hubZones,
                                                   category))))

\* The distance map: source -> (cell -> cost), Infinity for an absent cell.
precomputeDistances(sourceKeys, cells, edges, maxCost, ports, overrides, hubZones, category) ==
  [s \in {sourceKeys[i] : i \in DOMAIN sourceKeys} \cap cells |->
     dijkstra([c \in cells |-> IF c = s THEN 0 ELSE Infinity], <<[key |-> s, cost |-> 0]>>,
              cells, edges, maxCost, ports, overrides, hubZones, category)]

(***************************************************************************)
(* findPath: Dijkstra for one pair, with parent pointers and an early exit *)
(***************************************************************************)
\* relaxations that keep the parent a cell got first
RECURSIVE relaxPathFirstParent(_, _, _)
relaxPathFirstParent(st, offers, cur) ==
  IF offers = << >> THEN st
  ELSE LET o == Head(offers)
       IN IF o[2] < st.distances[o[1]]
            THEN relaxPathFirstParent(
                   [distances |-> [st.distances EXCEPT ![o[1]] = o[2]],
                    parent |-> [c \in DOMAIN st.parent \cup {o[1]} |->
                                  IF c \in DOMAIN st.parent THEN st.parent[c] ELSE cur],
                    queue |-> heapPush(st.queue, [key |-> o[1], cost |-> o[2]])],
                   Tail(offers), cur)
          ELSE relaxPathFirstParent(st, Tail(offers), cur)

\* the relaxations of the node popped at cur, recording cur as the parent
RECURSIVE relaxPath(_, _, _)
relaxPath(st, offers, cur) ==
  IF offers = << >> THEN st
  ELSE LET o == Head(offers)
       IN IF o[2] < st.distances[o[1]]
            THEN relaxPath([distances |-> [st.distances EXCEPT ![o[1]] = o[2]],
                            parent |-> [c \in DOMAIN st.parent \cup {o[1]} |->
                                          IF c = o[1] THEN cur ELSE st.parent[c]],
                            queue |-> heapPush(st.queue, [key |-> o[1], cost |-> o[2]])],
                           Tail(offers), cur)
          ELSE relaxPath(st, Tail(offers), cur)

\* the search loop: it stops when the destination is popped
RECURSIVE searchPath(_, _, _, _, _, _, _, _, _)
searchPath(st, dest, cells, edges, maxCost, ports, overrides, hubZones, category) ==
  IF st.queue = << >> THEN st
  ELSE LET current == st.queue[1]
           continue(nx) == searchPath(nx, dest, cells, edges, maxCost, ports, overrides,
                                      hubZones, category)
       IN IF current.key = dest THEN st
          ELSE IF current.cost > st.distances[current.key]
            THEN continue([st EXCEPT !.queue = heapPop(st.queue)])
          ELSE continue(relaxPath([st EXCEPT !.queue = heapPop(st.queue)],
                                  SeqOf(relaxations(current.key, current.cost, cells, edges,
                                                    maxCost, ports, overrides, hubZones,
                                                    category)),
                                  current.key))

\* the walk from the destination back along the parent pointers, reversed
RECURSIVE reconstruct(_, _)
reconstruct(parent, cur) ==
  IF cur \in DOMAIN parent THEN Append(reconstruct(parent, parent[cur]), cur) ELSE <<cur>>

\* findPath(sourceKey, destKey, ...): the cells of the path, << >> for null
findPath(sourceKey, destKey, cells, edges, ports, overrides, hubZones, category, maxCost) ==
  IF sourceKey \notin cells \/ destKey \notin cells THEN << >>
  ELSE IF sourceKey = destKey THEN <<sourceKey>>
  ELSE LET path(st) == IF st.distances[destKey] = Infinity THEN << >>
                       ELSE reconstruct(st.parent, destKey)
       IN path(searchPath([distances |-> [c \in cells |-> IF c = sourceKey THEN 0 ELSE Infinity],
                           parent |-> [c \in {} |-> sourceKey],
                           queue |-> <<[key |-> sourceKey, cost |-> 0]>>],
                          destKey, cells, edges, maxCost, ports, overrides, hubZones,
                          category))

\* map.get(a)?.get(b) ?? Infinity
distGet(dm, a, b) == IF a \in DOMAIN dm /\ b \in DOMAIN dm[a] THEN dm[a][b] ELSE Infinity

(***************************************************************************)
(* simulateTick: the producers and consumers of a tick                     *)
(***************************************************************************)
\* A producer is [isBase, key, buildingId, potential, realized, remaining,
\* zoneInputReduction].  The base population producer has key '__base__' in
\* the source, which equals no cell key: it is marked by isBase.
isOperating(g, c) ==
  IF hasSite(g[c]) THEN siteOf(g[c]).isUpgrade /\ siteOf(g[c]).previousBuildingId # "none"
  ELSE g[c].buildingId # "none" /\ ~g[c].paused

operatingId(g, c) ==
  IF hasSite(g[c]) THEN siteOf(g[c]).previousBuildingId ELSE g[c].buildingId

\* Object.keys(grid): the cells of the row in order, the cells of any other
\* map in a fixed order
keysOf(g) == IF DOMAIN g = Cells THEN GridKeys ELSE SeqOf(DOMAIN g)

\* BUILDINGS[buildingId] is undefined for an operating building and reading
\* its outputs throws (economy.ts 783-785)
tickThrows(g) ==
  \E c \in DOMAIN g : isOperating(g, c) /\ operatingId(g, c) \notin BuildingIds

\* the keys of operatingBuildings / constructionSites, in grid order
operatingBuildings(g) == SelectSeq(keysOf(g), LAMBDA c : isOperating(g, c))
constructionSites(g) == SelectSeq(keysOf(g), LAMBDA c : hasSite(g[c]))

min2(a, b) == IF a <= b THEN a ELSE b

zoneOutputBonus(g, key) ==
  LET uni(sc) == min2(IF sc.size = -1 THEN 0 ELSE sc.uniCount, 4)
      bonus(sc) ==
        IF RPos(sc.bonus) THEN RMul(RAdd(ZONE_OUTPUT_BONUS, Q(uni(sc), 10)), sc.bonus)
        ELSE Zero
  IN bonus(computeSuperclusters(g, key))

zoneInputReduction(g, key) ==
  LET uni(sc) == min2(IF sc.size = -1 THEN 0 ELSE sc.uniCount, 4)
      reduction(sc) ==
        IF RPos(sc.bonus)
          THEN RMin(RMul(RAdd(ZONE_INPUT_REDUCTION, Q(uni(sc), 20)), sc.bonus), <<1, 4>>)
          ELSE Zero
  IN reduction(computeSuperclusters(g, key))

\* potential[res] = output x (1 + clusterBonus + zoneOutputBonus)
potentialOf(g, key, bid) ==
  LET withBonus(outs, cb, zb) ==
        [res \in DOMAIN outs |->
           RAdd(RAdd(outs[res], RMul(outs[res], cb)), RMul(outs[res], zb))]
  IN withBonus(MapOf(BUILDINGS(bid).outputs),
               IF g[key].buildingId = "none" THEN Zero ELSE computeClusters(g, key).bonus,
               zoneOutputBonus(g, key))

baseProducer ==
  [isBase |-> TRUE, key |-> <<0, 0>>, buildingId |-> "__base__",
   potential |-> [x \in {"population"} |-> BASE_POPULATION],
   realized |-> EmptyMap,
   remaining |-> [x \in {"population"} |-> BASE_POPULATION],
   zoneInputReduction |-> Zero]

makeProducer(g, key) ==
  LET producer(pot) ==
        [isBase |-> FALSE, key |-> key, buildingId |-> operatingId(g, key),
         potential |-> pot, realized |-> EmptyMap, remaining |-> pot,
         zoneInputReduction |-> zoneInputReduction(g, key)]
  IN producer(potentialOf(g, key, operatingId(g, key)))

makeProducers(g) ==
  LET ob == operatingBuildings(g)
  IN <<baseProducer>> \o [i \in DOMAIN ob |-> makeProducer(g, ob[i])]

\* A consumer is [key, buildingId, prioritized, demand, received,
\* distanceLoss, demandKeys], demandKeys being Object.keys(demand) in order.
makeConsumer(g, key) ==
  LET consumer(ins, red) ==
        [key |-> key, buildingId |-> operatingId(g, key), prioritized |-> g[key].prioritized,
         demand |-> [res \in {ins[i][1] : i \in DOMAIN ins} |->
                       RMul(MapOf(ins)[res], RSub(One, red))],
         demandKeys |-> KeysOf(ins),
         received |-> EmptyMap, distanceLoss |-> EmptyMap]
  IN consumer(BUILDINGS(operatingId(g, key)).inputs, zoneInputReduction(g, key))

hasInputs(g, c) == Len(BUILDINGS(operatingId(g, c)).inputs) > 0

makeProcessors(g) ==
  LET ks == SelectSeq(operatingBuildings(g),
                      LAMBDA c : hasInputs(g, c) /\ operatingId(g, c) # "export_port")
  IN [i \in DOMAIN ks |-> makeConsumer(g, ks[i])]

makeExporters(g) ==
  LET ks == SelectSeq(operatingBuildings(g),
                      LAMBDA c : hasInputs(g, c) /\ operatingId(g, c) = "export_port")
  IN [i \in DOMAIN ks |-> makeConsumer(g, ks[i])]

\* the resources of a list of consumers, in order of first appearance
RECURSIVE dedup(_, _)
dedup(s, seen) ==
  IF s = << >> THEN << >>
  ELSE IF Head(s) \in seen THEN dedup(Tail(s), seen)
  ELSE <<Head(s)>> \o dedup(Tail(s), seen \cup {Head(s)})

RECURSIVE concatKeys(_)
concatKeys(consumers) ==
  IF consumers = << >> THEN << >>
  ELSE Head(consumers).demandKeys \o concatKeys(Tail(consumers))

demandedResources(consumers) == dedup(concatKeys(consumers), {})

countHexConnections(c, edges, type) ==
  Cardinality({n \in NeighborSet(c) :
                 getEdgeKey(c, n) \in DOMAIN edges /\ edgeHasType(edges[getEdgeKey(c, n)], type)})

\* export ports on water terrain or with a canal edge
waterPortKeys(g, edges) ==
  {c \in DOMAIN g : g[c].buildingId = "export_port" /\ ~hasSite(g[c]) /\
     ((\E i \in DOMAIN getTerrains(c) : getTerrains(c)[i] = "water")
        \/ countHexConnections(c, edges, "canal") > 0)}

\* ties settled by the coordinates as numbers instead of the key strings
closerHubNumeric(dist, hub, existing) ==
  \/ dist < existing.bestDist
  \/ (dist = existing.bestDist /\
        (hub[1] < existing.bestHub[1]
           \/ (hub[1] = existing.bestHub[1] /\ hub[2] < existing.bestHub[2])))

\* a candidate entry changes hands when the hub is nearer, or as near with
\* the smaller key string
closerHub(dist, hub, existing) ==
  \/ dist < existing.bestDist
  \/ (dist = existing.bestDist /\ StrLess(hexKey(hub), hexKey(existing.bestHub)))

\* hexCandidates after the hubs from the i-th on have claimed the cells of
\* their radius: cell -> [bestHub, bestDist]
\* no hub owns any cell
noHubZones(g) == << >>

RECURSIVE hexCandidates(_, _, _, _)
hexCandidates(g, hubs, i, cand) ==
  IF i > Len(hubs) THEN cand
  ELSE LET hub == hubs[i]
           covered == getHexesInRadius(hub, HUB_RADIUS(operatingId(g, hub))) \cap DOMAIN g
           claims(c) == c \in covered /\
                          (c \notin DOMAIN cand \/ closerHub(hexDistance(c, hub), hub, cand[c]))
       IN hexCandidates(g, hubs, i + 1,
            [c \in (DOMAIN cand) \cup covered |->
               IF claims(c) THEN [bestHub |-> hub, bestDist |-> hexDistance(c, hub)]
               ELSE cand[c]])

\* the hub zones: one per operating hub, in the order of the hubs, holding
\* the candidate cells whose best hub it is
hubZonesOf(g) ==
  LET hubs == SelectSeq(operatingBuildings(g), LAMBDA c : isHubBuilding(operatingId(g, c)))
      zones(cand) == [i \in DOMAIN hubs |->
                        [hubKey |-> hubs[i],
                         hexKeys |-> {c \in DOMAIN cand : cand[c].bestHub = hubs[i]}]]
  IN zones(hexCandidates(g, hubs, 1, [c \in {} |-> [bestHub |-> <<0, 0>>, bestDist |-> 0]]))

NoOverrides == [x \in {} |-> 0]
CanalOverrides == [x \in {"canal"} |-> 0]
PowerOverrides == [x \in {"power_line", "hv_line"} |-> IF x = "power_line" THEN 20 ELSE 0]

\* maxCost of every distance map of a tick: 10, in hundredths
MaxCost == 1000

producerKeys(prods) ==
  LET ps == SelectSeq(prods, LAMBDA p : ~p.isBase) IN [i \in DOMAIN ps |-> ps[i].key]

portDepotKeys(prods) ==
  LET ps == SelectSeq(prods, LAMBDA p : p.buildingId \in {"export_port", "trade_depot", "station"})
  IN [i \in DOMAIN ps |-> ps[i].key]

elecProducerKeys(prods) ==
  LET ps == SelectSeq(prods, LAMBDA p : ~p.isBase /\ RPos(Get(p.potential, "electricity")))
  IN [i \in DOMAIN ps |-> ps[i].key]

\* resources some construction site still lacks: the targeted reserve
constructionResourcesOf(g, sites) ==
  {res \in UNION ({DOMAIN siteOf(g[c]).totalCost : c \in {k \in DOMAIN g : hasSite(g[k])}}
                  \cup {DOMAIN sites[i].totalCost : i \in DOMAIN sites}) :
     \/ \E c \in DOMAIN g : /\ hasSite(g[c]) /\ res \in DOMAIN siteOf(g[c]).totalCost
                            /\ RLt(Get(siteOf(g[c]).delivered, res), siteOf(g[c]).totalCost[res])
     \/ \E i \in DOMAIN sites : /\ res \in DOMAIN sites[i].totalCost
                                /\ RLt(Get(sites[i].delivered, res), sites[i].totalCost[res])}

(***************************************************************************)
(* allocatePass                                                            *)
(***************************************************************************)
\* the falloff of 0.10 per unit of path cost
TransferEffSlow(pathCost) ==
  IF pathCost <= 100 THEN One
  ELSE RMax(Zero, RSub(One, RMul(Q(pathCost - 100, 100), Q(10, 100))))

\* transferEff of a path cost given in hundredths:
\* pathCost <= 1 ? 1.0 : Math.max(0, 1.0 - (pathCost - 1) * 0.15)
TransferEff(pathCost) ==
  IF pathCost <= 100 THEN One
  ELSE RMax(Zero, RSub(One, RMul(Q(pathCost - 100, 100), Q(15, 100))))

\* the path cost allocatePass gives to producer p and consumer c
pairCost(p, c, dm, pdm) ==
  IF c.key \in DOMAIN pdm
    THEN (IF p.isBase THEN 0 ELSE pdm[c.key][p.key])
  ELSE IF ~p.isBase /\ p.key \in DOMAIN dm THEN dm[p.key][c.key]
  ELSE 0

\* the tail of a transfer: the pair is shown on the map when more than 0.01
\* arrived and the producer is not the base
pushFlowPair(flowPairs, producer, consumer, resource, delivered, pathCost) ==
  IF RLt(<<1, 100>>, delivered) /\ ~producer.isBase
    THEN Append(flowPairs, [sourceKey |-> producer.key, destKey |-> consumer.key,
                            resource |-> resource, amount |-> delivered,
                            pathCost |-> pathCost])
  ELSE flowPairs

\* the flow pairs of one source, destination and resource are merged into the
\* first of them: amounts added, the larger path cost kept
RECURSIVE aggregateFrom(_, _, _)
aggregateFrom(acc, flowPairs, i) ==
  IF i > Len(flowPairs) THEN acc
  ELSE LET p == flowPairs[i]
           same(e) == /\ e.sourceKey = p.sourceKey
                      /\ e.destKey = p.destKey
                      /\ e.resource = p.resource
           at == {j \in DOMAIN acc : same(acc[j])}
       IN IF RLt(p.amount, <<1, 100>>) THEN aggregateFrom(acc, flowPairs, i + 1)
          ELSE IF at = {} THEN aggregateFrom(Append(acc, p), flowPairs, i + 1)
          ELSE aggregateFrom(
                 [j \in DOMAIN acc |->
                    IF j \in at
                      THEN [acc[j] EXCEPT !.amount = RAdd(@, p.amount),
                                          !.pathCost = IF @ >= p.pathCost THEN @
                                                       ELSE p.pathCost]
                    ELSE acc[j]],
                 flowPairs, i + 1)

aggregateFlowPairs(flowPairs) == aggregateFrom(<< >>, flowPairs, 1)

neededOf(c, resource) == RSub(Get(c.demand, resource), Get(c.received, resource))

\* the candidate pairs, producer-major in list order.  A pair is
\* [p, c, pathCost, transferEff], p and c being positions in the two lists.
buildPairs(resource, prods, consumers, dm, pdm) ==
  LET n == Len(prods)
      m == Len(consumers)
      all == [k \in 1..(n * m) |-> <<((k - 1) \div m) + 1, ((k - 1) % m) + 1>>]
      ok(pr) ==
        LET pp == prods[pr[1]]
            cc == consumers[pr[2]]
        IN /\ RPos(Get(pp.remaining, resource))
           /\ RPos(neededOf(cc, resource))
           /\ ~(~pp.isBase /\ pp.key = cc.key)
           /\ pairCost(pp, cc, dm, pdm) # Infinity
           /\ RPos(TransferEff(pairCost(pp, cc, dm, pdm)))
      kept == SelectSeq(all, ok)
  IN [k \in DOMAIN kept |->
        [p |-> kept[k][1], c |-> kept[k][2],
         pathCost |-> pairCost(prods[kept[k][1]], consumers[kept[k][2]], dm, pdm),
         transferEff |-> TransferEff(pairCost(prods[kept[k][1]], consumers[kept[k][2]], dm, pdm))]]

\* the comparator of pairs.sort: prioritized consumers first, then path cost
pairBefore(a, b, consumers) ==
  LET ap == IF consumers[a.c].prioritized THEN 0 ELSE 1
      bp == IF consumers[b.c].prioritized THEN 0 ELSE 1
  IN IF ap # bp THEN ap < bp ELSE a.pathCost < b.pathCost

\* Array.prototype.sort is stable: insertion into the sorted prefix after
\* every element that does not compare greater
RECURSIVE insertPair(_, _, _)
insertPair(sorted, x, consumers) ==
  IF sorted = << >> THEN <<x>>
  ELSE IF pairBefore(x, Head(sorted), consumers) THEN <<x>> \o sorted
  ELSE <<Head(sorted)>> \o insertPair(Tail(sorted), x, consumers)

RECURSIVE sortFrom(_, _, _, _)
sortFrom(ps, i, acc, consumers) ==
  IF i > Len(ps) THEN acc
  ELSE sortFrom(ps, i + 1, insertPair(acc, ps[i], consumers), consumers)

\* the pair list left in the order it was built
sortPairsUnsorted(ps, consumers) == ps

sortPairs(ps, consumers) == sortFrom(ps, 1, << >>, consumers)

\* the sweep without the cap on what the producer still has
canSendUncapped(remaining, needed, transferEff) ==
  IF RPos(transferEff) THEN RDiv(needed, transferEff) ELSE needed

\* the sweep that sends all the producer has, whatever is needed
canSendAll(remaining, needed, transferEff) == remaining

\* what one iteration of the sweep sends: Math.min(remaining, rawNeeded)
canSendOf(remaining, needed, transferEff) ==
  RMin(remaining, IF RPos(transferEff) THEN RDiv(needed, transferEff) ELSE needed)

\* what the consumer gets of it: canSend * transferEff
deliveredOf(canSend, transferEff) == RMul(canSend, transferEff)

(***************************************************************************)
(* simulateTick: the steps between the passes                              *)
(***************************************************************************)
effGet(m, key) == IF key \in DOMAIN m THEN m[key] ELSE One

\* the reserve withheld for every resource
reserveAlways(constructionResources, res) == RSub(One, CONSTRUCTION_RESERVE)

\* the share of a producer's output the processors may draw
reserveFactor(constructionResources, res) ==
  IF res \in constructionResources THEN RSub(One, CONSTRUCTION_RESERVE) ELSE One

resetConsumers(consumers) ==
  [i \in DOMAIN consumers |->
     [consumers[i] EXCEPT !.received = EmptyMap, !.distanceLoss = EmptyMap]]

\* remaining at the start of a convergence round
roundRemaining(prods, eff, constructionResources) ==
  [i \in DOMAIN prods |->
     IF prods[i].isBase THEN [prods[i] EXCEPT !.remaining = baseProducer.remaining]
     ELSE [prods[i] EXCEPT !.remaining =
             [res \in DOMAIN prods[i].potential |->
                RMul(RMul(prods[i].potential[res], effGet(eff, prods[i].key)),
                     reserveFactor(constructionResources, res))]]]

consumerAt(consumers, key) ==
  SelectSeq(consumers, LAMBDA c : c.key = key)

\* Math.min(1, received / demand), 1 for a resource of zero demand
satisfactionOf(c, res) ==
  IF RPos(Get(c.demand, res)) THEN RMin(One, RDiv(Get(c.received, res), c.demand[res]))
  ELSE One

RECURSIVE minSatisfaction(_, _, _)
minSatisfaction(c, i, acc) ==
  IF i > Len(c.demandKeys) THEN acc
  ELSE minSatisfaction(c, i + 1,
         IF RLt(satisfactionOf(c, c.demandKeys[i]), acc)
           THEN satisfactionOf(c, c.demandKeys[i]) ELSE acc)

\* the input efficiency of a producer from its processor entry, if any
inputEfficiencyOf(procs, key) ==
  LET cs == consumerAt(procs, key)
  IN IF cs = << >> THEN One ELSE minSatisfaction(cs[Len(cs)], 1, One)

\* the efficiencies without the production floor
roundEfficiencyNoFloor(prods, procs) ==
  [key \in {prods[i].key : i \in {j \in DOMAIN prods : ~prods[j].isBase}} |->
     inputEfficiencyOf(procs, key)]

roundEfficiency(prods, procs) ==
  [key \in {prods[i].key : i \in {j \in DOMAIN prods : ~prods[j].isBase}} |->
     RMax(inputEfficiencyOf(procs, key), MIN_PRODUCTION_FLOOR)]

\* realized production and the remaining the final processor pass starts from
establishRealized(prods, eff, constructionResources) ==
  [i \in DOMAIN prods |->
     IF prods[i].isBase
       THEN [prods[i] EXCEPT !.realized = baseProducer.remaining,
                             !.remaining = baseProducer.remaining]
     ELSE [prods[i] EXCEPT
             !.realized = [res \in DOMAIN prods[i].potential |->
                             RMul(prods[i].potential[res], effGet(eff, prods[i].key))],
             !.remaining = [res \in DOMAIN prods[i].potential |->
                RMul(RMul(prods[i].potential[res], effGet(eff, prods[i].key)),
                     reserveFactor(constructionResources, res))]]]

\* the construction pass started from the whole realized production
releaseToRealized(prods, eff, constructionResources) ==
  [i \in DOMAIN prods |->
     IF prods[i].isBase THEN prods[i] ELSE [prods[i] EXCEPT !.remaining = prods[i].realized]]

\* a release that gives back the whole realized production instead of the
\* reserved tenth
releaseReserveWhole(prods, eff, constructionResources) ==
  IF constructionResources = {} THEN prods
  ELSE [i \in DOMAIN prods |->
          IF prods[i].isBase THEN prods[i]
          ELSE [prods[i] EXCEPT !.remaining =
                  [res \in DOMAIN prods[i].potential |->
                     IF res \in constructionResources
                       THEN RAdd(Get(prods[i].remaining, res),
                                 RMul(prods[i].potential[res], effGet(eff, prods[i].key)))
                     ELSE prods[i].remaining[res]]]]

\* the construction reserve goes back into remaining before the
\* construction pass
releaseReserve(prods, eff, constructionResources) ==
  IF constructionResources = {} THEN prods
  ELSE [i \in DOMAIN prods |->
          IF prods[i].isBase THEN prods[i]
          ELSE [prods[i] EXCEPT !.remaining =
                  [res \in DOMAIN prods[i].potential |->
                     IF res \in constructionResources
                       THEN RAdd(Get(prods[i].remaining, res),
                                 RMul(RMul(prods[i].potential[res], effGet(eff, prods[i].key)),
                                      CONSTRUCTION_RESERVE))
                     ELSE prods[i].remaining[res]]]]

siteDemand(site) ==
  [res \in DOMAIN site.totalCost |-> RSub(site.totalCost[res], Get(site.delivered, res))]

\* constructionDemands, then infraDemands at the site's hexA
makeConstructionConsumers(g, sites) ==
  LET cs == constructionSites(g)
  IN [i \in DOMAIN cs |->
        [key |-> cs[i], buildingId |-> "site", prioritized |-> g[cs[i]].prioritized,
         demand |-> siteDemand(siteOf(g[cs[i]])),
         demandKeys |-> siteOf(g[cs[i]]).costKeys,
         received |-> EmptyMap, distanceLoss |-> EmptyMap,
         siteKey |-> cs[i], edgeKey |-> << >>]]
     \o
     [i \in DOMAIN sites |->
        [key |-> sites[i].hexA, buildingId |-> "infra", prioritized |-> FALSE,
         demand |-> siteDemand(sites[i]),
         demandKeys |-> sites[i].costKeys,
         received |-> EmptyMap, distanceLoss |-> EmptyMap,
         siteKey |-> << >>, edgeKey |-> sites[i].edgeKey]]

(***************************************************************************)
(* getExportEfficiency: the best weakest-link path to the map edge         *)
(***************************************************************************)
INFRA_EXPORT_EFFICIENCY(type) ==
  CASE type = "road" -> <<1, 2>>
    [] type = "rail" -> <<7, 10>>
    [] type = "canal" -> One

isAtMapEdge(g, c) ==
  \E n \in NeighborSet(c) : n \notin DOMAIN g \/ Len(getTerrains(n)) = 0

hasWater(c) == \E i \in DOMAIN getTerrains(c) : getTerrains(c)[i] = "water"

\* every transport type counted as good as a canal
getStepEfficiencyLax(edges, from, to) ==
  LET ek == getEdgeKey(from, to)
  IN IF ek \in DOMAIN edges /\ edges[ek].transport # "none" THEN One
     ELSE IF hasWater(to) THEN One ELSE Zero

\* Zero stands for null: every step efficiency is positive
getStepEfficiency(edges, from, to) ==
  LET ek == getEdgeKey(from, to)
      tr == IF ek \in DOMAIN edges THEN edges[ek].transport ELSE "none"
      best == IF tr = "none" THEN Zero ELSE INFRA_EXPORT_EFFICIENCY(tr)
  IN IF hasWater(to) THEN RMax(best, One) ELSE best

\* the neighbours of a popped cell in turn: st is [bestSeen, queue], bestSeen
\* holding Zero for a cell without entry
RECURSIVE exportExpand(_, _, _, _, _, _)
exportExpand(g, edges, cur, minEff, st, i) ==
  IF i > 6 THEN st
  ELSE LET n == getNeighbors(cur)[i]
           next(stepEff) ==
             IF ~RPos(stepEff) \/ ~RLt(st.bestSeen[n], RMin(minEff, stepEff)) THEN st
             ELSE [bestSeen |-> [st.bestSeen EXCEPT ![n] = RMin(minEff, stepEff)],
                   queue |-> Append(st.queue, <<n, RMin(minEff, stepEff)>>)]
       IN IF n \notin DOMAIN g THEN exportExpand(g, edges, cur, minEff, st, i + 1)
          ELSE exportExpand(g, edges, cur, minEff, next(getStepEfficiency(edges, cur, n)), i + 1)

\* the queue loop: a map-edge cell settles its path, another cell is expanded
RECURSIVE exportSearch(_, _, _, _)
exportSearch(g, edges, st, bestEfficiency) ==
  IF st.queue = << >> THEN bestEfficiency
  ELSE LET cur == Head(st.queue)[1]
           minEff == Head(st.queue)[2]
           popped == [st EXCEPT !.queue = Tail(st.queue)]
       IN IF isAtMapEdge(g, cur)
            THEN exportSearch(g, edges, popped, RMax(bestEfficiency, minEff))
          ELSE exportSearch(g, edges, exportExpand(g, edges, cur, minEff, popped, 1),
                            bestEfficiency)

getExportEfficiency(startKey, g, edges) ==
  IF startKey \notin DOMAIN g THEN Zero
  ELSE IF isAtMapEdge(g, startKey) THEN One
  ELSE LET firsts == SelectSeq([i \in 1..6 |->
                                  <<getNeighbors(startKey)[i],
                                    IF getNeighbors(startKey)[i] \in DOMAIN g
                                      THEN getStepEfficiency(edges, startKey,
                                                             getNeighbors(startKey)[i])
                                    ELSE Zero>>],
                               LAMBDA e : RPos(e[2]))
       IN exportSearch(g, edges,
                       [bestSeen |-> [c \in DOMAIN g |->
                                        IF \E k \in DOMAIN firsts : firsts[k][1] = c
                                          THEN firsts[CHOOSE k \in DOMAIN firsts :
                                                        firsts[k][1] = c][2]
                                        ELSE Zero],
                        queue |-> firsts],
                       Zero)

(***************************************************************************)
(* getExportPath: the search of getExportEfficiency with parent pointers   *)
(***************************************************************************)
\* the neighbours of a popped cell in turn: st is [bestSeen, parent, queue,
\* bestEfficiency, bestEndKey]; parent and bestEndKey hold << >> for unset
RECURSIVE pathExpand(_, _, _, _, _, _)
pathExpand(g, edges, cur, minEff, st, i) ==
  IF i > 6 THEN st
  ELSE LET n == getNeighbors(cur)[i]
           next(stepEff) ==
             IF ~RPos(stepEff) \/ ~RLt(st.bestSeen[n], RMin(minEff, stepEff)) THEN st
             ELSE [st EXCEPT !.bestSeen[n] = RMin(minEff, stepEff),
                             !.parent[n] = cur,
                             !.queue = Append(@, <<n, RMin(minEff, stepEff)>>)]
       IN IF n \notin DOMAIN g THEN pathExpand(g, edges, cur, minEff, st, i + 1)
          ELSE pathExpand(g, edges, cur, minEff, next(getStepEfficiency(edges, cur, n)), i + 1)

\* the queue loop: stale entries are skipped, a map-edge cell becomes the
\* end when it is strictly better, another cell is expanded
RECURSIVE pathSearch(_, _, _)
pathSearch(g, edges, st) ==
  IF st.queue = << >> THEN st
  ELSE LET cur == Head(st.queue)[1]
           minEff == Head(st.queue)[2]
           popped == [st EXCEPT !.queue = Tail(st.queue)]
       IN IF RLt(minEff, st.bestSeen[cur]) THEN pathSearch(g, edges, popped)
          ELSE IF isAtMapEdge(g, cur)
            THEN pathSearch(g, edges,
                            IF RLt(st.bestEfficiency, minEff)
                              THEN [popped EXCEPT !.bestEfficiency = minEff,
                                                  !.bestEndKey = cur]
                            ELSE popped)
          ELSE pathSearch(g, edges, pathExpand(g, edges, cur, minEff, popped, 1))

\* the walk back along the parent pointers until a cell repeats or has no
\* parent; path is in walking order, the end first
RECURSIVE pathBack(_, _, _)
pathBack(parent, cur, path) ==
  IF cur = << >> \/ \E k \in DOMAIN path : path[k] = cur THEN path
  ELSE pathBack(parent, parent[cur], Append(path, cur))

reverse(path) == [k \in DOMAIN path |-> path[Len(path) + 1 - k]]

\* << >> stands for null
getExportPath(startKey, g, edges) ==
  IF startKey \notin DOMAIN g THEN << >>
  ELSE IF isAtMapEdge(g, startKey) THEN <<startKey>>
  ELSE LET offer(i) == IF getNeighbors(startKey)[i] \in DOMAIN g
                         THEN getStepEfficiency(edges, startKey, getNeighbors(startKey)[i])
                       ELSE Zero
           firsts == SelectSeq([i \in 1..6 |-> <<getNeighbors(startKey)[i], offer(i)>>],
                               LAMBDA e : RPos(e[2]))
           offered(c) == \E k \in DOMAIN firsts : firsts[k][1] = c
           found(st) == IF st.bestEndKey = << >> THEN << >>
                        ELSE reverse(pathBack(st.parent, st.bestEndKey, << >>))
       IN found(pathSearch(g, edges,
                 [bestSeen |-> [c \in DOMAIN g |->
                                  IF offered(c)
                                    THEN firsts[CHOOSE k \in DOMAIN firsts : firsts[k][1] = c][2]
                                  ELSE Zero],
                  parent |-> [c \in DOMAIN g |-> IF offered(c) THEN startKey ELSE << >>],
                  queue |-> firsts,
                  bestEfficiency |-> Zero,
                  bestEndKey |-> << >>]))

(***************************************************************************)
(* simulateTick: summary, flow states, depot surplus, site updates         *)
(***************************************************************************)
emptyFlowSummary ==
  [potential |-> EmptyMap, potentialDemand |-> EmptyMap, realized |-> EmptyMap,
   consumed |-> EmptyMap, exportConsumed |-> EmptyMap, lostToDistance |-> EmptyMap,
   lostToShortage |-> EmptyMap]

\* addToMap over a sequence of <<resource, amount>> entries
RECURSIVE addAll(_, _)
addAll(map, entries) ==
  IF entries = << >> THEN map
  ELSE addAll(addToMap(map, Head(entries)[1], Head(entries)[2]), Tail(entries))

isHubId(id) == id \in {"export_port", "trade_depot", "station"}

\* the part of the per-producer loop that fills the summary and the flow
\* state of producer p; o is [nextGrid, summary, exportRate]
summarizeOne(o, p, procs, exps, eff, g, edges) ==
  LET ins == BUILDINGS(p.buildingId).inputs
      inKeys == KeysOf(ins)
      pr == consumerAt(procs, p.key)
      ex == consumerAt(exps, p.key)
      inputEfficiency == effGet(eff, p.key)
      buildingExportEff == IF isHubId(p.buildingId)
                             THEN getExportEfficiency(p.key, g, edges) ELSE Zero
      outs == KeysOf(BUILDINGS(p.buildingId).outputs)
      shortage(c, res) == RMax(Zero, RSub(RSub(Get(c.demand, res), Get(c.received, res)),
                                          Get(c.distanceLoss, res)))
      s0 == o.summary
      s1 == [s0 EXCEPT
               !.potentialDemand = addAll(@, [i \in DOMAIN ins |->
                  <<ins[i][1], RMul(ins[i][2], RSub(One, p.zoneInputReduction))>>]),
               !.potential = addAll(@, [i \in DOMAIN outs |-> <<outs[i], p.potential[outs[i]]>>]),
               !.realized = addAll(@, [i \in DOMAIN outs |-> <<outs[i], p.realized[outs[i]]>>])]
      s2 == IF pr = << >> THEN s1
            ELSE [s1 EXCEPT
               !.consumed = addAll(@, [i \in DOMAIN inKeys |->
                                         <<inKeys[i], Get(pr[1].received, inKeys[i])>>]),
               !.lostToDistance = addAll(@, [i \in DOMAIN inKeys |->
                                         <<inKeys[i], Get(pr[1].distanceLoss, inKeys[i])>>]),
               !.lostToShortage = addAll(@, [i \in DOMAIN inKeys |->
                                         <<inKeys[i], shortage(pr[1], inKeys[i])>>])]
      s3 == IF ex = << >> THEN s2
            ELSE [s2 EXCEPT
               !.consumed = addAll(@, [i \in DOMAIN inKeys |->
                                         <<inKeys[i], Get(ex[1].received, inKeys[i])>>]),
               !.exportConsumed = addAll(@, [i \in DOMAIN inKeys |->
                                         <<inKeys[i], Get(ex[1].received, inKeys[i])>>]),
               !.lostToDistance = addAll(@, [i \in DOMAIN inKeys |->
                                         <<inKeys[i], Get(ex[1].distanceLoss, inKeys[i])>>])]
      exportsGoods == ex # << >> /\ RPos(buildingExportEff)
                        /\ \E i \in DOMAIN inKeys : inKeys[i] = "goods"
      exported == RMul(Get(ex[1].received, "goods"), buildingExportEff)
      consumed == IF ex # << >>
                    THEN [res \in {inKeys[i] : i \in DOMAIN inKeys} |-> Get(ex[1].received, res)]
                  ELSE IF pr # << >>
                    THEN [res \in {inKeys[i] : i \in DOMAIN inKeys} |-> Get(pr[1].received, res)]
                  ELSE EmptyMap
      flowState == [potential |-> p.potential, realized |-> p.realized,
                    consumed |-> consumed,
                    efficiency |-> IF p.buildingId = "export_port" THEN One ELSE inputEfficiency,
                    exports |-> IF exportsGoods THEN Put(EmptyMap, "goods", exported)
                                ELSE EmptyMap,
                    exportEfficiency |-> buildingExportEff]
  IN [nextGrid |-> [o.nextGrid EXCEPT ![p.key].flowState = <<flowState>>],
      summary |-> s3,
      exportRate |-> IF exportsGoods THEN addToMap(o.exportRate, "goods", exported)
                     ELSE o.exportRate]

RECURSIVE summarizeFrom(_, _, _, _, _, _, _, _)
summarizeFrom(o, prods, i, procs, exps, eff, g, edges) ==
  IF i > Len(prods) THEN o
  ELSE IF prods[i].isBase THEN summarizeFrom(o, prods, i + 1, procs, exps, eff, g, edges)
  ELSE summarizeFrom(summarizeOne(o, prods[i], procs, exps, eff, g, edges),
                     prods, i + 1, procs, exps, eff, g, edges)

\* the summary after the per-producer loop
summarize(g, prods, procs, exps, eff, edges) ==
  summarizeFrom([nextGrid |-> g,
                 summary |-> [emptyFlowSummary EXCEPT
                                !.potential = addToMap(@, "population", BASE_POPULATION),
                                !.realized = addToMap(@, "population", BASE_POPULATION)],
                 exportRate |-> EmptyMap],
                prods, 1, procs, exps, eff, g, edges)

\* the depots and stations that absorb surplus: those with an export route
depotsOf(prods, g, edges) ==
  SelectSeq(prods, LAMBDA d : ~d.isBase /\ d.buildingId \in {"trade_depot", "station"}
                                /\ RPos(getExportEfficiency(d.key, g, edges)))

\* the path cost of a surplus claim of producer p on depot d
depotCost(p, d, res, dm, pdm, edm) ==
  LET fallbackDist == IF res = "electricity"
                        THEN (IF p.key \in DOMAIN edm THEN edm[p.key][d.key] ELSE Infinity)
                        ELSE (IF p.key \in DOMAIN dm THEN dm[p.key][d.key] ELSE Infinity)
  IN IF d.key \in DOMAIN pdm THEN min2(pdm[d.key][p.key], fallbackDist) ELSE fallbackDist

\* the depots producer p has a claim on for res, in depot order
claimsOf(p, res, depots, dm, pdm, edm) ==
  SelectSeq(depots, LAMBDA d : /\ depotCost(p, d, res, dm, pdm, edm) # Infinity
                               /\ RPos(TransferEff(depotCost(p, d, res, dm, pdm, edm))))

RECURSIVE sumEff(_, _, _, _, _, _)
sumEff(p, res, cl, dm, pdm, edm) ==
  IF cl = << >> THEN Zero
  ELSE RAdd(TransferEff(depotCost(p, Head(cl), res, dm, pdm, edm)),
            sumEff(p, res, Tail(cl), dm, pdm, edm))

\* what depot d exports of the surplus of p: share x transferEff x exportEff
exportedOf(p, d, res, cl, g, edges, dm, pdm, edm) ==
  LET eff == TransferEff(depotCost(p, d, res, dm, pdm, edm))
      share == RMul(Get(p.remaining, res), RDiv(eff, sumEff(p, res, cl, dm, pdm, edm)))
  IN RMul(RMul(share, eff), getExportEfficiency(d.key, g, edges))

\* one producer's surplus of res goes to its claims; st is
\* [prods, summary, exportRate, depotExports, absorbed]
absorbOne(st, i, res, depots, g, edges, dm, pdm, edm) ==
  LET p == st.prods[i]
      cl == claimsOf(p, res, depots, dm, pdm, edm)
      available == Get(p.remaining, res)
      entries == [k \in DOMAIN cl |-> <<res, exportedOf(p, cl[k], res, cl, g, edges, dm, pdm, edm)>>]
  IN IF p.isBase \/ ~RPos(available) \/ cl = << >> THEN st
     ELSE [prods |-> [st.prods EXCEPT ![i].remaining = Put(@, res, Zero)],
           summary |-> [st.summary EXCEPT !.consumed = addToMap(@, res, available),
                                          !.exportConsumed = addToMap(@, res, available)],
           exportRate |-> addAll(st.exportRate, SelectSeq(entries, LAMBDA e : RPos(e[2]))),
           depotExports |->
             [key \in DOMAIN st.depotExports |->
                addAll(st.depotExports[key],
                       SelectSeq([k \in DOMAIN cl |->
                                    IF cl[k].key = key THEN entries[k] ELSE <<res, Zero>>],
                                 LAMBDA e : RPos(e[2])))],
           absorbed |-> [st.absorbed EXCEPT ![i] = Put(@, res, available)]]

RECURSIVE absorbFrom(_, _, _, _, _, _, _, _, _)
absorbFrom(st, r, i, depots, g, edges, dm, pdm, edm) ==
  IF r > Len(ALL_EXPORTABLE_RESOURCES) THEN st
  ELSE IF i > Len(st.prods) THEN absorbFrom(st, r + 1, 1, depots, g, edges, dm, pdm, edm)
  ELSE absorbFrom(absorbOne(st, i, ALL_EXPORTABLE_RESOURCES[r], depots, g, edges, dm, pdm, edm),
                  r, i + 1, depots, g, edges, dm, pdm, edm)

\* Trade Depot Surplus Absorption
absorbSurplus(prods, summary, exportRate, g, edges, dm, pdm, edm) ==
  LET depots == depotsOf(prods, g, edges)
  IN absorbFrom([prods |-> prods, summary |-> summary, exportRate |-> exportRate,
                 depotExports |-> [key \in {depots[k].key : k \in DOMAIN depots} |-> EmptyMap],
                 absorbed |-> [i \in DOMAIN prods |-> EmptyMap]],
                1, 1, depots, g, edges, dm, pdm, edm)

\* the flow states of the depots get their exports
depotFlowStates(nextGrid, depotExports, g, edges) ==
  [c \in DOMAIN nextGrid |->
     IF c \in DOMAIN depotExports /\ nextGrid[c].flowState # << >>
       THEN [nextGrid[c] EXCEPT !.flowState =
               <<[nextGrid[c].flowState[1] EXCEPT
                    !.exports = depotExports[c],
                    !.exportEfficiency = getExportEfficiency(c, g, edges)]>>]
     ELSE nextGrid[c]]

\* newDelivered[res] = delivered[res] + received[res]
newDeliveredOf(site, received) ==
  [res \in DOMAIN site.delivered \cup DOMAIN received |->
     RAdd(Get(site.delivered, res), Get(received, res))]

\* every cost resource delivered up to the tolerance of 0.01
allComplete(site, newDelivered) ==
  \A res \in DOMAIN site.totalCost :
     RLe(RSub(site.totalCost[res], Q(1, 100)), Get(newDelivered, res))

\* Update Construction Sites: the building sites
updateBuildingSites(nextGrid, g, cons) ==
  [c \in DOMAIN nextGrid |->
     LET ds == SelectSeq(cons, LAMBDA d : d.siteKey = c)
     IN IF ds = << >> THEN nextGrid[c]
        ELSE LET site == siteOf(g[c])
                 nd == newDeliveredOf(site, ds[1].received)
             IN IF allComplete(site, nd)
                  THEN [nextGrid[c] EXCEPT !.buildingId = site.targetBuildingId,
                                           !.constructionSite = << >>,
                                           !.flowState = << >>]
                ELSE [nextGrid[c] EXCEPT !.constructionSite =
                        <<[site EXCEPT !.delivered = nd]>>]]

\* infraConstructionSites.find(s => s.edgeKey === edgeKey): the first site
\* of the list on that edge
findSite(sites, edgeKey) ==
  sites[CHOOSE i \in DOMAIN sites :
          sites[i].edgeKey = edgeKey /\ \A j \in 1..(i - 1) : sites[j].edgeKey # edgeKey]

edgeGet(edges, ek) == IF ek \in DOMAIN edges THEN edges[ek] ELSE NoEdge

\* the infrastructure sites, demand by demand; st is [edges, sites]
RECURSIVE updateInfraFrom(_, _, _, _)
updateInfraFrom(st, ds, i, sites) ==
  IF i > Len(ds) THEN st
  ELSE LET site == findSite(sites, ds[i].edgeKey)
           nd == newDeliveredOf(site, ds[i].received)
       IN IF allComplete(site, nd)
            THEN updateInfraFrom(
                   [st EXCEPT !.edges = Put(@, ds[i].edgeKey,
                                            setEdgeType(edgeGet(@, ds[i].edgeKey), site.targetType))],
                   ds, i + 1, sites)
          ELSE updateInfraFrom(
                   [st EXCEPT !.sites = Append(@, [site EXCEPT !.delivered = nd])],
                   ds, i + 1, sites)

updateInfraSites(edges, sites, cons) ==
  updateInfraFrom([edges |-> edges, sites |-> << >>],
                  SelectSeq(cons, LAMBDA d : d.buildingId = "infra"), 1, sites)

\* what the construction consumers add to the summary
summaryOfSites(summary, cons) ==
  LET recv(d) == LET ks == SelectSeq(d.demandKeys, LAMBDA res : res \in DOMAIN d.received)
                 IN [k \in DOMAIN ks |-> <<ks[k], d.received[ks[k]]>>]
      loss(d) == LET ks == SelectSeq(d.demandKeys, LAMBDA res : res \in DOMAIN d.distanceLoss)
                 IN [k \in DOMAIN ks |-> <<ks[k], d.distanceLoss[ks[k]]>>]
      F[i \in 0..Len(cons)] ==
        IF i = 0 THEN summary
        ELSE [F[i - 1] EXCEPT !.consumed = addAll(@, recv(cons[i])),
                              !.lostToDistance = addAll(@, loss(cons[i]))]
  IN F[Len(cons)]

(***************************************************************************)
(* The state                                                               *)
(***************************************************************************)
VARIABLES
  app,                     \* the application around the worker (see below)
  grid,                    \* the map: cell -> hex
  infraEdges,              \* edge key -> edge
  infraConstructionSites,  \* the list of infrastructure sites
  tick,                    \* ticks simulated so far
  pc,                      \* the position inside simulateTick
  iter,                    \* the convergence round
  phase,                   \* the consumer class being served
  resQueue,                \* resources the current class has yet to allocate
  pairs,                   \* the sorted pairs of the running allocatePass
  idx,                     \* the next pair of the sweep
  producers, processors, exporters, constructionConsumers,
  efficiencyByKey,
  env,                     \* distance maps and reserve set of the tick
  out,                     \* nextGrid, summary, exportRate, next infra state
  passStart,               \* history: remaining of each producer at pass start
  passLog,                 \* history: the transfers of the running pass
  sent,                    \* history: class -> producer -> resource -> amount
  phaseLog,                \* history: the classes served after convergence
  doneAtStart,             \* history: sites complete at the start of a tick
  analysis                 \* results of the map analyzers applied on their own

vars == <<app, grid, infraEdges, infraConstructionSites, tick, pc, iter, phase, resQueue,
          pairs, idx, producers, processors, exporters, constructionConsumers,
          efficiencyByKey, env, out, passStart, passLog, sent, phaseLog, doneAtStart,
          analysis>>

world == <<grid, infraEdges, infraConstructionSites, tick>>

\* number of ticks simulated
MaxTicks == 2

(***************************************************************************)
(* Initial states: saved games as loadSave accepts them                    *)
(***************************************************************************)
Hex(id) ==
  [buildingId |-> id, constructionSite |-> << >>, prioritized |-> FALSE,
   paused |-> FALSE, flowState |-> << >>]

DeliveredOptions == {"nothing", "nearly", "full"}

\* delivered of a site: nothing yet, all but 0.02 of the last cost resource,
\* or everything
deliveredFor(cost, opt) ==
  [res \in {cost[i][1] : i \in DOMAIN cost} |->
     IF opt = "nothing" THEN Zero
     ELSE IF opt = "nearly" /\ res = cost[Len(cost)][1]
       THEN RSub(cost[Len(cost)][2], Q(1, 50))
     ELSE MapOf(cost)[res]]

\* the hex buildBuilding leaves: a site for a new building
SiteHex(target, opt) ==
  [Hex("none") EXCEPT !.constructionSite =
     <<[targetBuildingId |-> target, totalCost |-> MapOf(BUILDINGS(target).cost),
        costKeys |-> KeysOf(BUILDINGS(target).cost),
        delivered |-> deliveredFor(BUILDINGS(target).cost, opt),
        isUpgrade |-> FALSE, previousBuildingId |-> "none"]>>]

\* the hex upgradeBuilding leaves: the old building under an upgrade site
UpgradeHex(prev, opt) ==
  [Hex(prev) EXCEPT !.constructionSite =
     <<[targetBuildingId |-> BUILDINGS(prev).upgradesTo,
        totalCost |-> MapOf(BUILDINGS(prev).upgradeCost),
        costKeys |-> KeysOf(BUILDINGS(prev).upgradeCost),
        delivered |-> deliveredFor(BUILDINGS(prev).upgradeCost, opt),
        isUpgrade |-> TRUE, previousBuildingId |-> prev]>>]

\* the site completeInfraPlacement appends
InfraSite(a, b, type, opt) ==
  [edgeKey |-> getEdgeKey(a, b), hexA |-> a, hexB |-> b, targetType |-> type,
   totalCost |-> MapOf(INFRASTRUCTURE_COSTS(type)),
   costKeys |-> KeysOf(INFRASTRUCTURE_COSTS(type)),
   delivered |-> deliveredFor(INFRASTRUCTURE_COSTS(type), opt)]

\* a toggle of togglePriority or togglePaused on one cell, or none
Toggles(layout) ==
  {<<"none", 0>>}
    \cup {<<"prioritize", i>> : i \in {j \in DOMAIN layout :
             layout[j].buildingId # "none" \/ hasSite(layout[j])}}
    \cup {<<"pause", i>> : i \in {j \in DOMAIN layout : layout[j].buildingId # "none"}}

GridOf(layout, toggle) ==
  [c \in Cells |->
     LET i == c[1] + 1
         h == IF i <= Len(layout) THEN layout[i] ELSE Hex("none")
     IN IF toggle[2] # i THEN h
        ELSE IF toggle[1] = "prioritize" THEN [h EXCEPT !.prioritized = TRUE]
        ELSE IF toggle[1] = "pause" THEN [h EXCEPT !.paused = TRUE]
        ELSE h]

Roads == {"none", "road", "rail"}

\* the same transport type on every edge of the row, or no edges
EdgesOf(road) ==
  IF road = "none" THEN [ek \in {} |-> NoEdge]
  ELSE [ek \in {<<GridKeys[i], GridKeys[i + 1]>> : i \in 1..(GridLen - 1)} |->
          [transport |-> road, power |-> "none"]]

\* two wood camps and two workshops at different distances
Contention ==
  <<Hex("wood_camp"), Hex("workshop"), Hex("stone_camp"), Hex("workshop"),
    Hex("none"), Hex("wood_camp")>>

\* an upgrade site that demands wood and stone, next to a processor of both
\* and a depot
Reserve(opt) ==
  <<Hex("stone_camp"), Hex("workshop"), UpgradeHex("forager", opt), Hex("wood_camp"),
    Hex("trade_depot")>>

\* buildings that depend on each other's output
Loop ==
  <<Hex("settlement"), Hex("forager"), Hex("farm"), Hex("workshop"),
    Hex("wood_camp"), Hex("stone_camp")>>

\* a wood camp far from the workshop it could supply
Far ==
  <<Hex("wood_camp"), Hex("none"), Hex("none"), Hex("none"), Hex("none"),
    Hex("none"), Hex("none"), Hex("none"), Hex("workshop"), Hex("stone_camp")>>

\* tools wanted by a processor, an upgrade site and an export port
Shared(opt) ==
  <<Hex("workshop"), Hex("export_port"), Hex("wood_camp"), Hex("stone_camp"),
    UpgradeHex("wood_camp", opt), Hex("farm")>>

\* a stone camp that cannot fill two workshops, an upgrade site that is 0.02
\* of stone short of complete, and a depot
Leftover ==
  <<Hex("stone_camp"), Hex("workshop"), Hex("workshop"), UpgradeHex("forager", "nearly"),
    Hex("trade_depot")>>

\* infrastructure sites, possibly two on one edge
InfraLayout == <<Hex("stone_camp"), Hex("wood_camp"), Hex("workshop")>>

InfraSiteLists ==
  LET a == <<2, 0>>
      b == <<3, 0>>
  IN {<<InfraSite(a, b, "rail", o)>> : o \in DeliveredOptions}
       \cup {<<InfraSite(a, b, "rail", o1), InfraSite(a, b, "power_line", o2)>> :
               o1 \in DeliveredOptions, o2 \in DeliveredOptions}
       \cup {<<InfraSite(a, b, "power_line", o1), InfraSite(b, a, "rail", o2)>> :
               o1 \in DeliveredOptions, o2 \in DeliveredOptions}

Scenarios ==
  {[layout |-> Contention, road |-> r, toggle |-> tg, sites |-> << >>] :
     r \in Roads, tg \in Toggles(Contention)}
  \cup {[layout |-> Reserve(o), road |-> r, toggle |-> tg, sites |-> << >>] :
     o \in DeliveredOptions, r \in Roads, tg \in Toggles(Reserve("nothing"))}
  \cup {[layout |-> Loop, road |-> r, toggle |-> tg, sites |-> << >>] :
     r \in Roads, tg \in Toggles(Loop)}
  \cup {[layout |-> Far, road |-> r, toggle |-> tg, sites |-> << >>] :
     r \in Roads, tg \in Toggles(Far)}
  \cup {[layout |-> Shared(o), road |-> r, toggle |-> tg, sites |-> << >>] :
     o \in DeliveredOptions, r \in Roads, tg \in Toggles(Shared("nothing"))}
  \cup {[layout |-> Leftover, road |-> r, toggle |-> <<"none", 0>>, sites |-> << >>] :
     r \in Roads}
  \cup {[layout |-> InfraLayout, road |-> "none", toggle |-> <<"none", 0>>, sites |-> s] :
     s \in InfraSiteLists}

NoEnv ==
  [distMap |-> EmptyMap, portDistMap |-> EmptyMap, elecDistMap |-> EmptyMap,
   constructionResources |-> {}, allProcessorRes |-> << >>]

NoOut ==
  [nextGrid |-> EmptyMap, summary |-> emptyFlowSummary, exportRate |-> EmptyMap,
   nextInfraEdges |-> EmptyMap, nextInfraConstructionSites |-> << >>, absorbed |-> << >>,
   allFlowPairs |-> << >>]

NoSent == [cl \in {"processors", "construction", "export"} |-> << >>]

\* the application is left out of the runs of simulateTick on its own
NoApp == [on |-> FALSE]

\* no tick has run and no analyzer has been applied
Blank ==
  /\ tick = 0
  /\ iter = 0
  /\ phase = "none"
  /\ resQueue = << >>
  /\ pairs = << >>
  /\ idx = 1
  /\ producers = << >>
  /\ processors = << >>
  /\ exporters = << >>
  /\ constructionConsumers = << >>
  /\ efficiencyByKey = EmptyMap
  /\ env = NoEnv
  /\ out = NoOut
  /\ passStart = << >>
  /\ passLog = << >>
  /\ sent = NoSent
  /\ phaseLog = << >>
  /\ doneAtStart = [cells |-> {}, edges |-> {}]
  /\ analysis = [kind |-> "none"]
  /\ app = NoApp

Init ==
  /\ \E s \in Scenarios :
       /\ grid = GridOf(s.layout, s.toggle)
       /\ infraEdges = EdgesOf(s.road)
       /\ infraConstructionSites = s.sites
  /\ pc = "idle"
  /\ Blank

(***************************************************************************)
(* simulateTick, step by step                                              *)
(***************************************************************************)
\* the sites that are complete within the tolerance when a tick starts
completeBuildingSites(g) ==
  {[cell |-> c, target |-> siteOf(g[c]).targetBuildingId] :
     c \in {k \in DOMAIN g : hasSite(g[k]) /\ allComplete(siteOf(g[k]), siteOf(g[k]).delivered)}}

completeInfraSites(sites) ==
  {[edgeKey |-> sites[i].edgeKey, target |-> sites[i].targetType] :
     i \in {j \in DOMAIN sites : allComplete(sites[j], sites[j].delivered)}}

\* simulateTick up to the convergence loop: producers, consumers, hub zones,
\* distance maps and the reserve set
\* the working structures start from what the previous call left behind
keptOut(g, edges) == [out EXCEPT !.nextGrid = g, !.nextInfraEdges = edges]

\* nextGrid, allFlowPairs and nextInfraEdges as simulateTick sets them up:
\* copies of the input and an empty list
freshOut(g, edges) == [NoOut EXCEPT !.nextGrid = g, !.nextInfraEdges = edges]

\* every cell object of nextGrid is the caller's own
sharesCells(part) == part = "cell"

\* whether a structure simulateTick writes to is an object of its input:
\* the cells of nextGrid ("cell"), nextInfraEdges ("edges"), the edge that
\* setEdgeType changes ("edge") and newDelivered ("delivered") are all
\* spread copies
shares(part) == FALSE

\* the delivered object of the first site of each demand's edge after the
\* deliveries were added to an object named newDelivered
RECURSIVE deliveredInto(_, _, _)
deliveredInto(sites, ds, i) ==
  IF i > Len(ds) THEN sites
  ELSE LET at == {j \in DOMAIN sites : sites[j].edgeKey = ds[i].edgeKey}
           first == CHOOSE j \in at : \A k \in at : j <= k
       IN deliveredInto([sites EXCEPT ![first].delivered =
                           newDeliveredOf(sites[first], ds[i].received)],
                        ds, i + 1)

\* the caller's grid after simulateTick wrote nextGrid and the deliveries of
\* the demands cons
inputGrid(g, nextGrid, cons) ==
  IF shares("cell") THEN nextGrid
  ELSE IF shares("delivered")
    THEN [c \in DOMAIN g |->
            LET ds == SelectSeq(cons, LAMBDA d : d.siteKey = c)
            IN IF ds = << >> THEN g[c]
               ELSE [g[c] EXCEPT !.constructionSite =
                       <<[siteOf(g[c]) EXCEPT !.delivered =
                            newDeliveredOf(siteOf(g[c]), ds[1].received)]>>]]
  ELSE g

\* the caller's edges after simulateTick wrote nextInfraEdges
inputEdges(edges, nextEdges) ==
  IF shares("edges") THEN nextEdges
  ELSE IF shares("edge") THEN [ek \in DOMAIN edges |-> nextEdges[ek]]
  ELSE edges

\* the caller's infrastructure sites after the deliveries of the demands cons
inputSites(sites, cons) ==
  IF shares("delivered")
    THEN deliveredInto(sites, SelectSeq(cons, LAMBDA d : d.buildingId = "infra"), 1)
  ELSE sites

\* what simulateTick returns
result ==
  [grid |-> out.nextGrid, flowSummary |-> out.summary, exportRate |-> out.exportRate,
   infraEdges |-> out.nextInfraEdges,
   infraConstructionSites |-> out.nextInfraConstructionSites,
   flowPairs |-> aggregateFlowPairs(out.allFlowPairs)]

StartTick ==
  /\ pc = "idle"
  /\ tick < MaxTicks
  /\ ~tickThrows(grid)
  /\ producers' = makeProducers(grid)
  /\ processors' = makeProcessors(grid)
  /\ LET maps(prods, ports, zones) ==
           [distMap |-> precomputeDistances(producerKeys(prods), DOMAIN grid, infraEdges,
                          MaxCost, ports, NoOverrides, zones, "transport"),
            portDistMap |-> precomputeDistances(portDepotKeys(prods), DOMAIN grid,
                          infraEdges, MaxCost, ports, CanalOverrides, zones, "transport"),
            elecDistMap |-> precomputeDistances(elecProducerKeys(prods), DOMAIN grid,
                          infraEdges, MaxCost, ports, PowerOverrides, zones, "power"),
            constructionResources |->
              constructionResourcesOf(grid, infraConstructionSites),
            allProcessorRes |-> demandedResources(processors')]
     IN env' = maps(producers', waterPortKeys(grid, infraEdges), hubZonesOf(grid))
  /\ exporters' = makeExporters(grid)
  /\ constructionConsumers' = << >>
  /\ efficiencyByKey' = EmptyMap
  /\ iter' = 0
  /\ phase' = "convergence"
  /\ pc' = "round"
  /\ resQueue' = << >>
  /\ pairs' = << >>
  /\ idx' = 1
  /\ out' = freshOut(grid, infraEdges)
  /\ passStart' = << >>
  /\ passLog' = << >>
  /\ sent' = NoSent
  /\ phaseLog' = << >>
  /\ doneAtStart' = [cells |-> doneAtStart.cells \cup completeBuildingSites(grid),
                      edges |-> doneAtStart.edges
                                  \cup completeInfraSites(infraConstructionSites)]
  /\ UNCHANGED <<world, analysis, app>>

noneSent(prods) == [i \in DOMAIN prods |-> EmptyMap]

\* the head of a convergence round: consumers and remaining are reset
BeginRound ==
  /\ pc = "round"
  /\ processors' = resetConsumers(processors)
  /\ producers' = roundRemaining(producers, efficiencyByKey, env.constructionResources)
  /\ resQueue' = env.allProcessorRes
  /\ pc' = "pass"
  /\ sent' = [sent EXCEPT !["processors"] = noneSent(producers)]
  /\ passStart' = << >>
  /\ passLog' = << >>
  /\ UNCHANGED <<world, analysis, app, iter, phase, pairs, idx, exporters, constructionConsumers,
                 efficiencyByKey, env, out, phaseLog, doneAtStart>>

\* the consumer list of the class being served
consumersOf(ph) ==
  IF ph = "construction" THEN constructionConsumers
  ELSE IF ph = "export" THEN exporters
  ELSE processors

\* the ledger entry of the class being served
classOf(ph) ==
  IF ph = "construction" THEN "construction"
  ELSE IF ph = "export" THEN "export" ELSE "processors"

\* the distance map allocatePass is called with
distMapFor(ph, res) ==
  IF ph # "construction" /\ res = "electricity" THEN env.elecDistMap ELSE env.distMap

portDistMapFor(ph) == IF ph = "export" THEN env.portDistMap ELSE EmptyMap

\* allocatePass up to the sorted pair list, for the next resource
PassBegin ==
  /\ pc = "pass"
  /\ resQueue # << >>
  /\ pairs' = sortPairs(buildPairs(Head(resQueue), producers, consumersOf(phase),
                                   distMapFor(phase, Head(resQueue)), portDistMapFor(phase)),
                        consumersOf(phase))
  /\ idx' = 1
  /\ pc' = "sweep"
  /\ passStart' = [i \in DOMAIN producers |-> Get(producers[i].remaining, Head(resQueue))]
  /\ passLog' = << >>
  /\ UNCHANGED <<world, analysis, app, iter, phase, resQueue, producers, processors, exporters,
                 constructionConsumers, efficiencyByKey, env, out, sent, phaseLog,
                 doneAtStart>>

\* the consumer list of the class after consumer c got its delivery
deliverTo(consumers, c, res, delivered, lost) ==
  [consumers EXCEPT ![c].received = addToMap(@, res, delivered),
                    ![c].distanceLoss = addToMap(@, res, lost)]

\* one iteration of the sweep over the sorted pairs
SweepStep ==
  /\ pc = "sweep"
  /\ idx <= Len(pairs)
  /\ LET res == Head(resQueue)
         pr == pairs[idx]
         remaining == Get(producers[pr.p].remaining, res)
         needed == neededOf(consumersOf(phase)[pr.c], res)
         canSend == canSendOf(remaining, needed, pr.transferEff)
         delivered == deliveredOf(canSend, pr.transferEff)
         cons == deliverTo(consumersOf(phase), pr.c, res, delivered, RSub(canSend, delivered))
     IN IF ~RPos(remaining) \/ ~RPos(needed)
          THEN UNCHANGED <<producers, processors, exporters, constructionConsumers,
                           passLog, sent, out>>
        ELSE /\ producers' = [producers EXCEPT ![pr.p].remaining = Put(@, res, RSub(remaining, canSend))]
             /\ processors' = IF phase \in {"convergence", "final"} THEN cons ELSE processors
             /\ constructionConsumers' = IF phase = "construction" THEN cons
                                         ELSE constructionConsumers
             /\ exporters' = IF phase = "export" THEN cons ELSE exporters
             /\ passLog' = Append(passLog, [p |-> pr.p, c |-> pr.c, pathCost |-> pr.pathCost,
                                            transferEff |-> pr.transferEff,
                                            prioritized |-> consumersOf(phase)[pr.c].prioritized,
                                            canSend |-> canSend, delivered |-> delivered])
             /\ sent' = [sent EXCEPT ![classOf(phase)][pr.p] = addToMap(@, res, canSend)]
             /\ out' = IF phase \in {"final", "export"}
                         THEN [out EXCEPT !.allFlowPairs =
                                 pushFlowPair(@, producers[pr.p], consumersOf(phase)[pr.c],
                                              res, delivered, pr.pathCost)]
                       ELSE out
  /\ idx' = idx + 1
  /\ UNCHANGED <<world, analysis, app, pc, iter, phase, resQueue, pairs, efficiencyByKey, env,
                 passStart, phaseLog, doneAtStart>>

\* allocatePass returns: on to the next resource of the class
PassEnd ==
  /\ pc = "sweep"
  /\ idx > Len(pairs)
  /\ resQueue' = Tail(resQueue)
  /\ pc' = "pass"
  /\ UNCHANGED <<world, analysis, app, iter, phase, pairs, idx, producers, processors, exporters,
                 constructionConsumers, efficiencyByKey, env, out, passStart, passLog,
                 sent, phaseLog, doneAtStart>>

\* the tail of a convergence round: the efficiencies are recomputed
RoundEnd ==
  /\ pc = "pass"
  /\ phase = "convergence"
  /\ resQueue = << >>
  /\ efficiencyByKey' = roundEfficiency(producers, processors)
  /\ iter' = iter + 1
  /\ pc' = IF iter + 1 < CONVERGENCE_ITERATIONS THEN "round" ELSE "realize"
  /\ UNCHANGED <<world, analysis, app, phase, resQueue, pairs, idx, producers, processors, exporters,
                 constructionConsumers, env, out, passStart, passLog, sent, phaseLog,
                 doneAtStart>>

\* realized production is established and the final processor pass set up
Realize ==
  /\ pc = "realize"
  /\ producers' = establishRealized(producers, efficiencyByKey, env.constructionResources)
  /\ processors' = resetConsumers(processors)
  /\ resQueue' = env.allProcessorRes
  /\ phase' = "final"
  /\ pc' = "pass"
  /\ sent' = [cl \in DOMAIN NoSent |-> noneSent(producers)]
  /\ phaseLog' = <<"processors">>
  /\ passStart' = << >>
  /\ passLog' = << >>
  /\ UNCHANGED <<world, analysis, app, iter, pairs, idx, exporters, constructionConsumers,
                 efficiencyByKey, env, out, doneAtStart>>

\* after the final processor pass the reserve is released and the
\* construction consumers are built
BeginConstruction ==
  /\ pc = "pass"
  /\ phase = "final"
  /\ resQueue = << >>
  /\ producers' = releaseReserve(producers, efficiencyByKey, env.constructionResources)
  /\ constructionConsumers' = makeConstructionConsumers(grid, infraConstructionSites)
  /\ resQueue' = demandedResources(makeConstructionConsumers(grid, infraConstructionSites))
  /\ phase' = "construction"
  /\ phaseLog' = Append(phaseLog, "construction")
  /\ UNCHANGED <<world, analysis, app, pc, iter, pairs, idx, processors, exporters, efficiencyByKey, env,
                 out, passStart, passLog, sent, doneAtStart>>

\* after the construction pass come the export ports
BeginExport ==
  /\ pc = "pass"
  /\ phase = "construction"
  /\ resQueue = << >>
  /\ resQueue' = demandedResources(exporters)
  /\ phase' = "export"
  /\ phaseLog' = Append(phaseLog, "export")
  /\ UNCHANGED <<world, analysis, app, pc, iter, pairs, idx, producers, processors, exporters,
                 constructionConsumers, efficiencyByKey, env, out, passStart, passLog,
                 sent, doneAtStart>>

\* the per-producer loop: summary, export rate and flow states
Summarize ==
  /\ pc = "pass"
  /\ phase = "export"
  /\ resQueue = << >>
  /\ LET merged(o) == [out EXCEPT !.nextGrid = o.nextGrid, !.summary = o.summary,
                                    !.exportRate = o.exportRate]
     IN out' = merged(summarize(out.nextGrid, producers, processors, exporters,
                                efficiencyByKey, infraEdges))
  /\ grid' = inputGrid(grid, out'.nextGrid, << >>)
  /\ pc' = "depot"
  /\ UNCHANGED <<infraEdges, infraConstructionSites, tick, analysis, app, iter, phase,
                 resQueue, pairs, idx, producers, processors, exporters,
                 constructionConsumers, efficiencyByKey, env, passStart, passLog, sent,
                 phaseLog, doneAtStart>>

\* depots and stations absorb what the three passes left
DepotSurplus ==
  /\ pc = "depot"
  /\ LET absorbed(st) ==
           /\ producers' = st.prods
           /\ out' = [out EXCEPT !.summary = st.summary, !.exportRate = st.exportRate,
                                 !.absorbed = st.absorbed,
                                 !.nextGrid = depotFlowStates(@, st.depotExports, grid,
                                                              infraEdges)]
     IN absorbed(absorbSurplus(producers, out.summary, out.exportRate, grid, infraEdges,
                               env.distMap, env.portDistMap, env.elecDistMap))
  /\ grid' = inputGrid(grid, out'.nextGrid, << >>)
  /\ pc' = "sites"
  /\ phaseLog' = Append(phaseLog, "depot")
  /\ UNCHANGED <<infraEdges, infraConstructionSites, tick, analysis, app, iter, phase,
                 resQueue, pairs, idx, processors, exporters, constructionConsumers,
                 efficiencyByKey, env, passStart, passLog, sent, doneAtStart>>

\* building sites and infrastructure sites take their deliveries
UpdateSites ==
  /\ pc = "sites"
  /\ LET inf == updateInfraSites(out.nextInfraEdges, infraConstructionSites,
                                 constructionConsumers)
     IN out' = [out EXCEPT
                  !.nextGrid = updateBuildingSites(@, grid, constructionConsumers),
                  !.nextInfraEdges = inf.edges,
                  !.nextInfraConstructionSites = inf.sites,
                  !.summary = summaryOfSites(@, constructionConsumers)]
  /\ grid' = inputGrid(grid, out'.nextGrid, constructionConsumers)
  /\ infraEdges' = inputEdges(infraEdges, out'.nextInfraEdges)
  /\ infraConstructionSites' = inputSites(infraConstructionSites, constructionConsumers)
  /\ pc' = "return"
  /\ UNCHANGED <<tick, analysis, app, iter, phase, resQueue, pairs, idx, producers, processors,
                 exporters, constructionConsumers, efficiencyByKey, env, passStart,
                 passLog, sent, phaseLog, doneAtStart>>

\* simulateTick returns and the result becomes the game state
Return ==
  /\ pc = "return"
  /\ grid' = out.nextGrid
  /\ infraEdges' = out.nextInfraEdges
  /\ infraConstructionSites' = out.nextInfraConstructionSites
  /\ tick' = tick + 1
  /\ pc' = "idle"
  /\ UNCHANGED <<analysis, app, iter, phase, resQueue, pairs, idx, producers, processors,
                 exporters, constructionConsumers, efficiencyByKey, env, out, passStart,
                 passLog, sent, phaseLog, doneAtStart>>

Next ==
  \/ StartTick
  \/ BeginRound
  \/ PassBegin
  \/ SweepStep
  \/ PassEnd
  \/ RoundEnd
  \/ Realize
  \/ BeginConstruction
  \/ BeginExport
  \/ Summarize
  \/ DepotSurplus
  \/ UpdateSites
  \/ Return

Spec == Init /\ [][Next]_vars

(***************************************************************************)
(* The map analyzers applied on their own to two-dimensional maps: the hub *)
(* zones and water ports of simulateTick, precomputeDistances, findPath,   *)
(* getExportEfficiency, computeClusters and computeSuperclusters           *)
(***************************************************************************)
\* a map of the patch: the placed buildings, no building elsewhere
PatchGrid(placed) ==
  [c \in PatchCells |-> IF c \in DOMAIN placed THEN placed[c] ELSE Hex("none")]

\* the edges along a chain of neighbouring cells
EdgesAlong(path, transport, power) ==
  IF transport = "none" /\ power = "none" THEN [ek \in {} |-> NoEdge]
  ELSE [ek \in {getEdgeKey(path[i], path[i + 1]) : i \in 1..(Len(path) - 1)} |->
          [transport |-> transport, power |-> power]]

\* two depots whose radii overlap, with cells as near to one as to the other
TwoDepots(west) ==
  PatchGrid((<<9, 2>> :> west) @@ (<<11, 2>> :> Hex("trade_depot"))
              @@ (<<10, 2>> :> Hex("workshop")) @@ (<<12, 0>> :> Hex("workshop"))
              @@ (<<8, 4>> :> Hex("wood_camp")) @@ (<<10, 4>> :> Hex("stone_camp")))

\* a station that covers the patch, a depot and a port inside its radius
StationDepot ==
  PatchGrid((<<10, 2>> :> Hex("station")) @@ (<<12, 1>> :> Hex("trade_depot"))
              @@ (<<8, 3>> :> Hex("export_port")) @@ (<<9, 1>> :> Hex("wood_camp"))
              @@ (<<11, 3>> :> Hex("workshop")))

\* export ports inside the patch, on its rim and on the water cell
Ports ==
  PatchGrid((<<10, 2>> :> Hex("export_port")) @@ (<<12, 2>> :> Hex("export_port"))
              @@ (<<10, 1>> :> Hex("export_port")) @@ (<<8, 4>> :> Hex("wood_camp"))
              @@ (<<9, 2>> :> Hex("workshop")))

\* buildings without any hub
NoHubs ==
  PatchGrid((<<10, 2>> :> Hex("workshop")) @@ (<<11, 2>> :> Hex("wood_camp"))
              @@ (<<9, 3>> :> Hex("stone_camp")) @@ (<<12, 0>> :> Hex("settlement")))

PatchLayouts ==
  {TwoDepots(Hex("trade_depot")), TwoDepots([Hex("trade_depot") EXCEPT !.paused = TRUE]),
   TwoDepots(SiteHex("trade_depot", "nothing")), TwoDepots(UpgradeHex("trade_depot", "nothing")),
   StationDepot, Ports, NoHubs}

TransportTypes == {"none", "road", "rail", "canal"}

\* a line of two edges from the centre eastwards to the rim, a line of three
\* edges from the centre southwards to the rim, and the edge from the water
\* cell north of the centre to the rim
EastLine == <<PatchCenter, <<11, 2>>, <<12, 2>>>>

SouthLine == <<PatchCenter, <<10, 3>>, <<9, 3>>, <<8, 4>>>>

NorthRim == <<<<10, 1>>, <<10, 0>>>>

PatchEdges(a, b, c, d) ==
  EdgesAlong(SubSeq(EastLine, 1, 2), a, "none") @@ EdgesAlong(SubSeq(EastLine, 2, 3), b, "none")
    @@ EdgesAlong(SouthLine, c,
                  IF c = "rail" THEN "power_line" ELSE IF c = "canal" THEN "hv_line" ELSE "none")
    @@ EdgesAlong(NorthRim, d, "none")

\* the cells around the centre, in the order of HEX_DIRECTIONS
Ring == getNeighbors(PatchCenter)

\* a wood camp at the centre with wood camps on the first n cells around it
Grove(n) ==
  PatchGrid([c \in {PatchCenter} \cup {Ring[i] : i \in 1..n} |-> Hex("wood_camp")])

\* a grove whose cells around the centre are joined to a far wood camp by a
\* higher-tier building, by a hub, or not at all by a building of another type
Joined(by) ==
  PatchGrid([c \in {PatchCenter} \cup {Ring[i] : i \in 1..5} |-> Hex("wood_camp")]
              @@ (Ring[6] :> by) @@ (<<10, 4>> :> Hex("wood_camp")))

ClusterLayouts ==
  {Grove(n) : n \in 0..6}
    \cup {Joined(Hex("lumber_mill")), Joined(Hex("trade_depot")), Joined(Hex("stone_camp")),
          Joined([Hex("lumber_mill") EXCEPT !.paused = TRUE]),
          Joined(UpgradeHex("wood_camp", "nothing"))}

PatchMaps ==
  {[grid |-> g, infraEdges |-> PatchEdges(a, a, c, "none")] :
     g \in PatchLayouts, a \in {"none", "canal"}, c \in {"none", "rail", "canal"}}
  \cup {[grid |-> g, infraEdges |-> EdgesOf("none")] : g \in ClusterLayouts}
  \cup {[grid |-> NoHubs, infraEdges |-> PatchEdges(a, b, cd[1], cd[2])] :
     a \in TransportTypes, b \in TransportTypes,
     cd \in {<<"none", "none">>, <<"rail", "road">>, <<"none", "road">>}}

\* a map of a row: the given buildings from the left
RowGrid(hexes) == [c \in ZoneRow(Len(hexes)) |-> hexes[c[1] + 1]]

Run(hex, n) == [i \in 1..n |-> hex]

\* n farming buildings of one type, or of two types with second holding
\* the last cell
Farms(n, second) == RowGrid(Run(Hex("wood_camp"), n - 1) \o <<Hex(second)>>)

\* a zone split by a paused building or by a construction site
Split(hex) ==
  RowGrid(Run(Hex("wood_camp"), 11) \o <<Hex("forager"), hex, Hex("forager")>>
            \o Run(Hex("wood_camp"), 11))

\* a hub between a farming zone and a mining zone
HubBetween(farms, second, mines, other) ==
  RowGrid(Run(Hex("wood_camp"), farms - 1) \o <<Hex(second), Hex("trade_depot"), Hex(other)>>
            \o Run(Hex("stone_camp"), mines - 1))

RowMaps ==
  {[grid |-> g, infraEdges |-> EdgesOf("none")] :
     g \in {Farms(n, t) : n \in {20, 21, 22, 32, 42, 43, ZoneRowMax},
                          t \in {"wood_camp", "forager"}}
           \cup {Split(Hex("wood_camp")), Split([Hex("wood_camp") EXCEPT !.paused = TRUE]),
                 Split(SiteHex("wood_camp", "nothing")), Split(UpgradeHex("wood_camp", "nothing"))}
           \cup {HubBetween(22, "wood_camp", 22, "quarry"),
                 HubBetween(22, "forager", 22, "stone_camp"),
                 HubBetween(21, "wood_camp", 23, "quarry"),
                 HubBetween(22, "forager", 22, "quarry")}}


\* a port, a depot and the manufactory that supplies the port, all of them
\* off the rim of the patch
Inland ==
  PatchGrid((PatchCenter :> Hex("export_port")) @@ (<<11, 2>> :> Hex("trade_depot"))
              @@ (<<10, 3>> :> Hex("manufactory")) @@ (<<9, 2>> :> Hex("stone_camp")))

InlandMaps ==
  {[grid |-> Inland, infraEdges |-> PatchEdges(ab[1], ab[2], c, d)] :
     ab \in {<<"none", "none">>, <<"none", "road">>, <<"road", "road">>, <<"canal", "rail">>},
     c \in {"none", "rail"}, d \in {"none", "road"}}

\* the rows with a building site or infrastructure sites, untoggled
SiteScenarios ==
  {s \in Scenarios :
     /\ s.toggle = <<"none", 0>>
     /\ \/ s.sites # << >>
        \/ \E c \in DOMAIN s.layout : hasSite(s.layout[c])}

\* a map to analyse, or a map on which ticks run
MapInit ==
  /\ \/ /\ \E m \in PatchMaps \cup RowMaps :
             /\ grid = m.grid
             /\ infraEdges = m.infraEdges
        /\ pc = "map"
        /\ infraConstructionSites = << >>
     \/ /\ \E m \in InlandMaps :
             /\ grid = m.grid
             /\ infraEdges = m.infraEdges
        /\ pc = "idle"
        /\ infraConstructionSites = << >>
     \/ /\ \E s \in SiteScenarios :
             /\ grid = GridOf(s.layout, s.toggle)
             /\ infraEdges = EdgesOf(s.road)
             /\ infraConstructionSites = s.sites
        /\ pc = "idle"
  /\ Blank

\* a key of no cell of any map
MissingKey == <<0, 9>>

\* the arguments simulateTick passes for its three distance maps, and the
\* defaults tickWorker leaves to findPath
DistanceArgs ==
  {[category |-> "transport", overrides |-> NoOverrides, ports |-> TRUE, zones |-> TRUE],
   [category |-> "transport", overrides |-> CanalOverrides, ports |-> TRUE, zones |-> TRUE],
   [category |-> "power", overrides |-> PowerOverrides, ports |-> TRUE, zones |-> TRUE],
   [category |-> "transport", overrides |-> NoOverrides, ports |-> FALSE, zones |-> FALSE]}

\* the cap of simulateTick and a cap that cuts paths of the patch short
CapChoices == {150, MaxCost}

portsFor(args) == IF args.ports THEN waterPortKeys(grid, infraEdges) ELSE {}

zonesFor(args) == IF args.zones THEN hubZonesOf(grid) ELSE << >>

\* the sources of a tick (the operating buildings) and a key that is no cell
sourcesOf(g) == Append(operatingBuildings(g), MissingKey)

\* destinations: the centre, the rim ends of two lines and a missing key
Destinations == {PatchCenter, EastLine[3], SouthLine[4], MissingKey}

analysed == UNCHANGED <<world, app, iter, phase, resQueue, pairs, idx, producers, processors,
                        exporters, constructionConsumers, efficiencyByKey, env, out,
                        passStart, passLog, sent, phaseLog, doneAtStart>>

\* the hub zones and water ports of a tick
AnalyseHubs ==
  /\ pc = "map"
  /\ analysis' = [kind |-> "hubs", hubZones |-> hubZonesOf(grid),
                  waterPortKeys |-> waterPortKeys(grid, infraEdges)]
  /\ pc' = "analysed"
  /\ analysed

AnalyseDistances ==
  /\ pc = "map"
  /\ DOMAIN grid = PatchCells
  /\ \E args \in DistanceArgs, maxCost \in CapChoices :
       analysis' = [kind |-> "distances", args |-> args, maxCost |-> maxCost,
                    distances |-> precomputeDistances(sourcesOf(grid), DOMAIN grid, infraEdges,
                                    maxCost, portsFor(args), args.overrides, zonesFor(args),
                                    args.category)]
  /\ pc' = "analysed"
  /\ analysed

AnalysePaths ==
  /\ pc = "map"
  /\ DOMAIN grid = PatchCells
  /\ \E args \in DistanceArgs, maxCost \in CapChoices :
       LET pathsOf(sources, ports, zones) ==
             [pr \in {sources[i] : i \in DOMAIN sources} \X Destinations |->
                findPath(pr[1], pr[2], DOMAIN grid, infraEdges, ports, args.overrides, zones,
                         args.category, maxCost)]
       IN analysis' = [kind |-> "paths", args |-> args, maxCost |-> maxCost,
                       paths |-> pathsOf(sourcesOf(grid), portsFor(args), zonesFor(args))]
  /\ pc' = "analysed"
  /\ analysed

AnalyseExport ==
  /\ pc = "map"
  /\ analysis' = [kind |-> "export",
                  efficiency |-> [c \in DOMAIN grid |-> getExportEfficiency(c, grid, infraEdges)]]
  /\ pc' = "analysed"
  /\ analysed

AnalyseClusters ==
  /\ pc = "map"
  /\ DOMAIN grid = PatchCells
  /\ analysis' = [kind |-> "clusters",
                  clusters |-> [c \in {k \in DOMAIN grid : grid[k].buildingId # "none"} |->
                                  computeClusters(grid, c)]]
  /\ pc' = "analysed"
  /\ analysed

AnalyseZones ==
  /\ pc = "map"
  /\ analysis' = [kind |-> "zones",
                  superclusters |-> [c \in DOMAIN grid |-> computeSuperclusters(grid, c)]]
  /\ pc' = "analysed"
  /\ analysed

\* the export buildings of a map: what tickWorker draws export paths for
exportBuildings(g) ==
  {c \in DOMAIN g : g[c].buildingId \in {"export_port", "trade_depot", "station"}}

\* the export path of every export building of the map
AnalyseExportPath ==
  /\ pc \in {"map", "idle"}
  /\ tick = 0
  /\ DOMAIN grid = PatchCells
  /\ analysis' = [kind |-> "exportPath",
                  paths |-> [c \in exportBuildings(grid) |->
                               getExportPath(c, grid, infraEdges)]]
  /\ pc' = "analysed"
  /\ analysed

\* the caller keeps what simulateTick returned and what it was called with,
\* drops nothing and does not adopt the result: the next call gets the same
\* grid, edges and sites
CallAgain ==
  /\ pc = "return"
  /\ analysis' = [kind |-> "call", grid |-> grid, infraEdges |-> infraEdges,
                  infraConstructionSites |-> infraConstructionSites,
                  result |-> result]
  /\ pc' = "idle"
  /\ UNCHANGED <<world, app, iter, phase, resQueue, pairs, idx, producers, processors,
                 exporters, constructionConsumers, efficiencyByKey, env, out, passStart,
                 passLog, sent, phaseLog, doneAtStart>>

MapNext ==
  \/ CallAgain
  \/ AnalyseHubs
  \/ AnalyseDistances
  \/ AnalysePaths
  \/ AnalyseExport
  \/ AnalyseExportPath
  \/ AnalyseClusters
  \/ AnalyseZones
  \/ Next

MapSpec == MapInit /\ [][MapNext]_vars

(***************************************************************************)
(* The application (src/src/App.tsx) around the worker                     *)
(* (src/src/tickWorker.ts).  app holds the game state, the three refs of   *)
(* the tick interval, the messages in flight in both directions and a      *)
(* record of what happened; grid, infraEdges and infraConstructionSites    *)
(* are the worker's e.data while it handles a message.  The worker shares  *)
(* nothing with the application between taking a message and posting the  *)
(* reply, so its steps commute with the application's: the application     *)
(* acts while the worker waits for a message (pc = "wait").                *)
(***************************************************************************)
\* tick requests posted and user edits made in one run
MaxPosts == 2

MaxEdits == 2

\* the cells the user edits and the edge the user works on
EditCells == {<<1, 0>>, <<3, 0>>}

EditFrom == <<1, 0>>

EditTo == <<2, 0>>

EditTypes == {"road", "rail", "power_line"}

\* buildings the user places: one that is free and one that costs wood
BuildChoices == {"wood_camp", "forager"}

MAX_INFRA_CONNECTIONS == 4

\* a building id that BUILDINGS does not hold, as a save can carry it
UnknownId == "ruin"

workerVars == <<grid, infraEdges, infraConstructionSites, tick, pc, iter, phase, resQueue,
                pairs, idx, producers, processors, exporters, constructionConsumers,
                efficiencyByKey, env, out, passStart, passLog, sent, phaseLog, doneAtStart,
                analysis>>

\* gameState after a save was loaded, no tick posted yet.  siteRef is the
\* identity of each cell's constructionSite object (<< >> for undefined);
\* the refs hold << >> for null or the one value they point to
AppStart(g, edges, sites) ==
  [on |-> TRUE, grid |-> g, infraEdges |-> edges, infraConstructionSites |-> sites,
   siteRef |-> [c \in DOMAIN g |-> IF hasSite(g[c]) THEN <<"save">> ELSE << >>],
   sentGrid |-> << >>, sentRef |-> << >>, sentInfra |-> << >>, sentInfraCS |-> << >>,
   requests |-> << >>, replies |-> << >>,
   posted |-> 0, merged |-> 0, edits |-> 0, current |-> 0,
   replied |-> [id \in 1..MaxPosts |-> 0],
   log |-> << >>,
   touched |-> [id \in 1..MaxPosts |-> {}],
   infraOps |-> [id \in 1..MaxPosts |-> << >>],
   lastMerge |-> [id |-> 0]]

\* a site about to complete, an infrastructure site about to complete on a
\* road, and a save with a building of an unknown type
AppScenarios ==
  {[layout |-> <<Hex("wood_camp"), SiteHex("forager", "nearly"), Hex("stone_camp")>>,
    edges |-> EdgesAlong(<<<<0, 0>>, EditFrom>>, "road", "none"), sites |-> << >>],
   [layout |-> <<Hex("wood_camp"), Hex("forager"), Hex("stone_camp")>>,
    edges |-> EdgesAlong(<<<<0, 0>>, EditFrom, EditTo>>, "road", "none"),
    sites |-> <<InfraSite(EditFrom, EditTo, "rail", "nearly")>>],
   [layout |-> <<Hex(UnknownId), Hex("wood_camp")>>,
    edges |-> EdgesOf("none"), sites |-> << >>]}

AppInit ==
  /\ \E s \in AppScenarios :
       app = AppStart(GridOf(s.layout, <<"none", 0>>), s.edges, s.sites)
  /\ grid = GridOf(<< >>, <<"none", 0>>)
  /\ infraEdges = EdgesOf("none")
  /\ infraConstructionSites = << >>
  /\ pc = "wait"
  /\ tick = 0
  /\ iter = 0
  /\ phase = "none"
  /\ resQueue = << >>
  /\ pairs = << >>
  /\ idx = 1
  /\ producers = << >>
  /\ processors = << >>
  /\ exporters = << >>
  /\ constructionConsumers = << >>
  /\ efficiencyByKey = EmptyMap
  /\ env = NoEnv
  /\ out = NoOut
  /\ passStart = << >>
  /\ passLog = << >>
  /\ sent = NoSent
  /\ phaseLog = << >>
  /\ doneAtStart = [cells |-> {}, edges |-> {}]
  /\ analysis = [kind |-> "none"]

\* the requests whose reply has not been merged yet
Outstanding(id) == app.merged < id /\ id <= app.posted

\* the user acts between two steps of the application
CanEdit == app.on /\ pc = "wait" /\ app.edits < MaxEdits

\* setGameState with one cell replaced; ref is the identity of the cell's
\* constructionSite object
setCell(c, hex, ref) ==
  [app EXCEPT !.grid[c] = hex, !.siteRef[c] = ref, !.edits = @ + 1,
              !.touched = [id \in 1..MaxPosts |->
                             IF Outstanding(id) THEN app.touched[id] \cup {c}
                             ELSE app.touched[id]]]

\* a construction site object the user's edit creates
newRef == <<"edit", app.edits + 1>>

buildBuilding ==
  \E c \in EditCells, id \in BuildChoices :
    /\ CanEdit
    /\ app.grid[c].buildingId = "none" /\ ~hasSite(app.grid[c])
    /\ app' = IF BUILDINGS(id).cost = << >>
                THEN setCell(c, [app.grid[c] EXCEPT !.buildingId = id], << >>)
              ELSE setCell(c, [app.grid[c] EXCEPT !.constructionSite =
                                 SiteHex(id, "nothing").constructionSite], newRef)
    /\ UNCHANGED workerVars

upgradeBuilding ==
  \E c \in EditCells :
    /\ CanEdit
    /\ app.grid[c].buildingId \in BuildingIds /\ ~hasSite(app.grid[c])
    /\ BUILDINGS(app.grid[c].buildingId).upgradesTo # "none"
    /\ BUILDINGS(app.grid[c].buildingId).upgradeCost # << >>
    /\ app' = setCell(c, [app.grid[c] EXCEPT !.constructionSite =
                            UpgradeHex(app.grid[c].buildingId, "nothing").constructionSite],
                      newRef)
    /\ UNCHANGED workerVars

togglePriority ==
  \E c \in EditCells :
    /\ CanEdit
    /\ app.grid[c].buildingId # "none" /\ ~hasSite(app.grid[c])
    /\ app' = setCell(c, [app.grid[c] EXCEPT !.prioritized = ~@], app.siteRef[c])
    /\ UNCHANGED workerVars

togglePaused ==
  \E c \in EditCells :
    /\ CanEdit
    /\ app.grid[c].buildingId # "none" /\ ~hasSite(app.grid[c])
    /\ app' = setCell(c, [app.grid[c] EXCEPT !.paused = ~@], app.siteRef[c])
    /\ UNCHANGED workerVars

\* Demolish on a building, Cancel on a construction site
demolishBuilding ==
  \E c \in EditCells :
    /\ CanEdit
    /\ app.grid[c].buildingId # "none" \/ hasSite(app.grid[c])
    /\ LET hex == app.grid[c]
           restores == /\ hasSite(hex)
                       /\ siteOf(hex).isUpgrade
                       /\ siteOf(hex).previousBuildingId # "none"
       IN app' = setCell(c, [hex EXCEPT !.buildingId = IF restores
                                                         THEN siteOf(hex).previousBuildingId
                                                       ELSE "none",
                                        !.constructionSite = << >>,
                                        !.flowState = << >>],
                         << >>)
    /\ UNCHANGED workerVars

categoryOf(type) == IF isPowerInfra(type) THEN "power" ELSE "transport"

subTypeOf(edge, category) == IF category = "power" THEN edge.power ELSE edge.transport

\* a construction site of the category is in progress on the edge
siteOn(sites, ek, category) ==
  \E i \in DOMAIN sites :
     sites[i].edgeKey = ek /\ categoryOf(sites[i].targetType) = category

\* the real edges with the targets of the sites and the new edge set on them
RECURSIVE withGhosts(_, _, _)
withGhosts(edges, sites, i) ==
  IF i > Len(sites) THEN edges
  ELSE withGhosts(Put(edges, sites[i].edgeKey,
                      setEdgeType(edgeGet(edges, sites[i].edgeKey), sites[i].targetType)),
                  sites, i + 1)

\* countHexConnections without a type: the physical edges at a cell
physicalConnections(c, edges) ==
  Cardinality({n \in NeighborSet(c) : getEdgeKey(c, n) \in DOMAIN edges})

\* what the user did last to a category of an edge since a request was
\* posted, for every request whose reply is still to be merged
noteInfra(ops, ek, category, op) ==
  [id \in 1..MaxPosts |->
     IF Outstanding(id) THEN Put(ops[id], <<ek, category>>, op) ELSE ops[id]]

\* the rules on connections, connectivity and sites in progress; the rule on
\* intersections needs a cell with three edges of one type, which a row of
\* cells does not have
completeInfraPlacement ==
  \E type \in EditTypes :
    LET ek == getEdgeKey(EditFrom, EditTo)
        nextInfraEdges ==
          Put(withGhosts(app.infraEdges, app.infraConstructionSites, 1), ek,
              setEdgeType(edgeGet(withGhosts(app.infraEdges, app.infraConstructionSites, 1),
                                  ek), type))
        edgesWithoutNew == [k \in DOMAIN nextInfraEdges \ {ek} |-> nextInfraEdges[k]]
    IN /\ CanEdit
       /\ ~edgeHasType(edgeGet(app.infraEdges, ek), type)
       /\ physicalConnections(EditFrom, nextInfraEdges) <= MAX_INFRA_CONNECTIONS
       /\ physicalConnections(EditTo, nextInfraEdges) <= MAX_INFRA_CONNECTIONS
       /\ (type # "canal" /\ DOMAIN edgesWithoutNew # {}) =>
             \/ physicalConnections(EditFrom, edgesWithoutNew) > 0
             \/ physicalConnections(EditTo, edgesWithoutNew) > 0
       /\ ~siteOn(app.infraConstructionSites, ek, categoryOf(type))
       /\ app' = IF INFRASTRUCTURE_COSTS(type) = << >>
                   THEN [app EXCEPT
                           !.infraEdges = Put(@, ek, setEdgeType(edgeGet(@, ek), type)),
                           !.edits = @ + 1,
                           !.infraOps = noteInfra(@, ek, categoryOf(type),
                                                  [edge |-> "added", site |-> "same",
                                                   type |-> type])]
                 ELSE [app EXCEPT
                         !.infraConstructionSites =
                            Append(@, InfraSite(EditFrom, EditTo, type, "nothing")),
                         !.edits = @ + 1,
                         !.infraOps = noteInfra(@, ek, categoryOf(type),
                                                [edge |-> "same", site |-> "started",
                                                 type |-> type])]
       /\ UNCHANGED workerVars

\* the x next to a sub-type of the edge or next to a site on it
demolishInfraEdge ==
  \E category \in {"transport", "power"} :
    LET ek == getEdgeKey(EditFrom, EditTo)
        hadType == ek \in DOMAIN app.infraEdges /\ subTypeOf(app.infraEdges[ek], category) # "none"
        hadSite == siteOn(app.infraConstructionSites, ek, category)
        updated == IF category = "transport"
                     THEN [edgeGet(app.infraEdges, ek) EXCEPT !.transport = "none"]
                   ELSE [edgeGet(app.infraEdges, ek) EXCEPT !.power = "none"]
        newEdges == IF ek \notin DOMAIN app.infraEdges THEN app.infraEdges
                    ELSE IF updated = NoEdge
                      THEN [k \in DOMAIN app.infraEdges \ {ek} |-> app.infraEdges[k]]
                    ELSE [app.infraEdges EXCEPT ![ek] = updated]
        newSites == SelectSeq(app.infraConstructionSites,
                              LAMBDA s : ~(s.edgeKey = ek /\ categoryOf(s.targetType) = category))
    IN /\ CanEdit
       /\ hadType \/ hadSite
       /\ app' = [app EXCEPT
                    !.infraEdges = newEdges,
                    !.infraConstructionSites = newSites,
                    !.edits = @ + 1,
                    !.infraOps = noteInfra(@, ek, category,
                                           [edge |-> IF hadType THEN "removed" ELSE "same",
                                            site |-> IF hadSite THEN "cancelled" ELSE "same",
                                            type |-> "none"])]
       /\ UNCHANGED workerVars

\* the interval callback: the refs point to the current state, which is
\* posted to the worker
postTick ==
  /\ app.on
  /\ pc = "wait"
  /\ app.posted < MaxPosts
  /\ app' = [app EXCEPT
               !.sentGrid = <<app.grid>>,
               !.sentRef = <<app.siteRef>>,
               !.sentInfra = <<app.infraEdges>>,
               !.sentInfraCS = <<app.infraConstructionSites>>,
               !.requests = Append(@, [id |-> app.posted + 1, grid |-> app.grid,
                                       infraEdges |-> app.infraEdges,
                                       infraConstructionSites |->
                                         app.infraConstructionSites]),
               !.posted = @ + 1,
               !.touched[app.posted + 1] = {},
               !.infraOps[app.posted + 1] = << >>]
  /\ UNCHANGED workerVars

\* whether the merge takes the cell for changed by the user
userChanged(cur, curRef, sentHex, sentRef) ==
  \/ cur.buildingId # sentHex.buildingId
  \/ curRef # sentRef
  \/ cur.paused # sentHex.paused
  \/ cur.prioritized # sentHex.prioritized

\* a merge that takes the worker's cell and keeps the construction site of
\* the current one
mergeGridFields(prevGrid, prevRef, sentGrid, sentRef, workerGrid) ==
  [c \in DOMAIN workerGrid |->
     [workerGrid[c] EXCEPT !.constructionSite = prevGrid[c].constructionSite]]

mergeGrid(prevGrid, prevRef, sentGrid, sentRef, workerGrid) ==
  IF sentGrid = << >> THEN workerGrid
  ELSE [c \in DOMAIN workerGrid |->
          IF userChanged(prevGrid[c], prevRef[c], sentGrid[1][c], sentRef[1][c])
            THEN prevGrid[c]
          ELSE workerGrid[c]]

\* the identities after the merge: the reply's objects are new ones
mergeRef(prevGrid, prevRef, sentGrid, sentRef, workerGrid, id) ==
  [c \in DOMAIN workerGrid |->
     IF sentGrid # << >>
        /\ userChanged(prevGrid[c], prevRef[c], sentGrid[1][c], sentRef[1][c])
       THEN prevRef[c]
     ELSE IF hasSite(workerGrid[c]) THEN <<"reply", id>> ELSE << >>]

mergeInfraEdges(prevEdges, sentInfra, workerInfra) ==
  IF sentInfra = << >> THEN workerInfra
  ELSE LET added == {ek \in DOMAIN prevEdges :
                       ek \notin DOMAIN sentInfra[1] /\ ek \notin DOMAIN workerInfra}
           removed == {ek \in DOMAIN sentInfra[1] :
                         ek \notin DOMAIN prevEdges /\ ek \in DOMAIN workerInfra}
       IN [ek \in (DOMAIN workerInfra \cup added) \ removed |->
             IF ek \in added THEN prevEdges[ek] ELSE workerInfra[ek]]

mergeInfraCS(prevSites, sentInfraCS, workerInfraCS) ==
  IF sentInfraCS = << >> THEN workerInfraCS
  ELSE LET workerEdgeKeys == {workerInfraCS[i].edgeKey : i \in DOMAIN workerInfraCS}
           sentEdgeKeys == {sentInfraCS[1][i].edgeKey : i \in DOMAIN sentInfraCS[1]}
       IN workerInfraCS
            \o SelectSeq(prevSites,
                         LAMBDA cs : cs.edgeKey \notin sentEdgeKeys
                                       /\ cs.edgeKey \notin workerEdgeKeys)

\* worker.onmessage: the next reply is merged into the game state
merge ==
  /\ app.on
  /\ pc = "wait"
  /\ app.replies # << >>
  /\ LET reply == Head(app.replies)
         mergedGrid == mergeGrid(app.grid, app.siteRef, app.sentGrid, app.sentRef, reply.grid)
         mergedInfraEdges == mergeInfraEdges(app.infraEdges, app.sentInfra, reply.infraEdges)
         mergedInfraCS == mergeInfraCS(app.infraConstructionSites, app.sentInfraCS,
                                       reply.infraConstructionSites)
     IN app' = [app EXCEPT
                  !.grid = mergedGrid,
                  !.siteRef = mergeRef(app.grid, app.siteRef, app.sentGrid, app.sentRef,
                                       reply.grid, reply.id),
                  !.infraEdges = mergedInfraEdges,
                  !.infraConstructionSites = mergedInfraCS,
                  !.replies = Tail(@),
                  !.merged = @ + 1,
                  !.lastMerge = [id |-> reply.id, cells |-> app.touched[reply.id],
                                 infraOps |-> app.infraOps[reply.id],
                                 before |-> app.grid, after |-> mergedGrid,
                                 infraEdges |-> mergedInfraEdges,
                                 infraConstructionSites |-> mergedInfraCS]]
  /\ UNCHANGED workerVars

\* computeSegCosts, in hundredths
computeSegCosts(path, edges) ==
  [i \in 1..(Len(path) - 1) |->
     LET transport == edgeGet(edges, getEdgeKey(path[i], path[i + 1])).transport
     IN IF transport = "rail" THEN 12
        ELSE IF transport = "canal" THEN 20
        ELSE IF transport = "road" THEN 45
        ELSE 80]

\* the routes of the aggregated flow pairs, with findPath's defaults
RECURSIVE flowRoutes(_, _, _, _)
flowRoutes(res, i, routeData, maxCost) ==
  IF i > Len(res.flowPairs) THEN routeData
  ELSE LET fp == res.flowPairs[i]
           path == findPath(fp.sourceKey, fp.destKey, DOMAIN res.grid, res.infraEdges, {},
                            NoOverrides, << >>, "transport", maxCost)
           pushed(p) == IF Len(p) >= 2
                          THEN Append(routeData, [fp |-> fp, path |-> p,
                                                  segCosts |-> computeSegCosts(p, res.infraEdges)])
                        ELSE routeData
       IN flowRoutes(res, i + 1, pushed(path), maxCost)

\* the export entries of one building on its export path
exportEntriesOf(key, exports, path, edges) ==
  LET resources == SelectSeq(ALL_EXPORTABLE_RESOURCES,
                             LAMBDA r : r \in DOMAIN exports /\ RLe(Q(1, 100), exports[r]))
  IN [k \in DOMAIN resources |->
        [fp |-> [sourceKey |-> key, destKey |-> path[Len(path)],
                 resource |-> resources[k], amount |-> exports[resources[k]],
                 pathCost |-> Len(path) * 50],
         path |-> path, segCosts |-> computeSegCosts(path, edges)]]

RECURSIVE sumOf(_, _)
sumOf(m, keys) ==
  IF keys = {} THEN Zero
  ELSE LET k == CHOOSE x \in keys : TRUE IN RAdd(m[k], sumOf(m, keys \ {k}))

\* the export paths of the buildings that export at least 0.01
RECURSIVE exportRoutes(_, _, _, _)
exportRoutes(res, keys, i, routeData) ==
  IF i > Len(keys) THEN routeData
  ELSE LET hex == res.grid[keys[i]]
           exports == IF hex.flowState = << >> THEN EmptyMap ELSE hex.flowState[1].exports
           skip == \/ hex.buildingId = "none" \/ hasSite(hex)
                   \/ DOMAIN exports = {}
                   \/ RLt(sumOf(exports, DOMAIN exports), Q(1, 100))
           withPath(p) == IF Len(p) >= 2
                            THEN routeData \o exportEntriesOf(keys[i], exports, p, res.infraEdges)
                          ELSE routeData
       IN IF skip THEN exportRoutes(res, keys, i + 1, routeData)
          ELSE exportRoutes(res, keys, i + 1,
                            withPath(getExportPath(keys[i], res.grid, res.infraEdges)))

\* the message posted after a tick that did not throw
tickReply(id, res) ==
  [id |-> id, grid |-> res.grid, flowSummary |-> res.flowSummary,
   exportRate |-> res.exportRate, infraEdges |-> res.infraEdges,
   infraConstructionSites |-> res.infraConstructionSites,
   routeData |-> exportRoutes(res, keysOf(res.grid), 1, flowRoutes(res, 1, << >>, MaxCost))]

\* a fallback that answers with an empty map
failReplyBlank(id, data) ==
  [id |-> id, grid |-> GridOf(<< >>, <<"none", 0>>), flowSummary |-> emptyFlowSummary,
   exportRate |-> EmptyMap, infraEdges |-> EdgesOf("none"),
   infraConstructionSites |-> << >>, routeData |-> << >>]

\* the message posted from the catch block: the request handed back
failReply(id, data) ==
  [id |-> id, grid |-> data.grid, flowSummary |-> emptyFlowSummary,
   exportRate |-> EmptyMap, infraEdges |-> data.infraEdges,
   infraConstructionSites |-> data.infraConstructionSites, routeData |-> << >>]

\* e.data of the message being handled
eData ==
  [grid |-> grid, infraEdges |-> infraEdges,
   infraConstructionSites |-> infraConstructionSites]

\* self.onmessage is called with the next request
workerReceive ==
  /\ app.on
  /\ pc = "wait"
  /\ app.requests # << >>
  /\ grid' = Head(app.requests).grid
  /\ infraEdges' = Head(app.requests).infraEdges
  /\ infraConstructionSites' = Head(app.requests).infraConstructionSites
  /\ app' = [app EXCEPT !.requests = Tail(@), !.current = Head(app.requests).id]
  /\ pc' = "idle"
  /\ UNCHANGED <<tick, iter, phase, resQueue, pairs, idx, producers, processors, exporters,
                 constructionConsumers, efficiencyByKey, env, out, passStart, passLog, sent,
                 phaseLog, doneAtStart, analysis>>

posts(reply) ==
  app' = [app EXCEPT !.replies = Append(@, reply),
                     !.replied[app.current] = @ + 1,
                     !.log = Append(@, [request |-> eData, threw |-> tickThrows(grid),
                                        reply |-> reply])]

\* simulateTick returned: the routes are computed and the result is posted
workerReply ==
  /\ app.on
  /\ pc = "return"
  /\ posts(tickReply(app.current, result))
  /\ tick' = tick + 1
  /\ pc' = "wait"
  /\ UNCHANGED <<grid, infraEdges, infraConstructionSites, iter, phase, resQueue, pairs, idx,
                 producers, processors, exporters, constructionConsumers, efficiencyByKey,
                 env, out, passStart, passLog, sent, phaseLog, doneAtStart, analysis>>

\* simulateTick threw: the catch block posts the fallback
workerFail ==
  /\ app.on
  /\ pc = "idle"
  /\ tickThrows(grid)
  /\ posts(failReply(app.current, eData))
  /\ pc' = "wait"
  /\ UNCHANGED <<grid, infraEdges, infraConstructionSites, tick, iter, phase, resQueue, pairs,
                 idx, producers, processors, exporters, constructionConsumers,
                 efficiencyByKey, env, out, passStart, passLog, sent, phaseLog, doneAtStart,
                 analysis>>

AppNext ==
  \/ postTick
  \/ merge
  \/ buildBuilding
  \/ upgradeBuilding
  \/ togglePriority
  \/ togglePaused
  \/ demolishBuilding
  \/ completeInfraPlacement
  \/ demolishInfraEdge
  \/ workerReceive
  \/ workerReply
  \/ workerFail
  \/ StartTick
  \/ BeginRound
  \/ PassBegin
  \/ SweepStep
  \/ PassEnd
  \/ RoundEnd
  \/ Realize
  \/ BeginConstruction
  \/ BeginExport
  \/ Summarize
  \/ DepotSurplus
  \/ UpdateSites

AppSpec == AppInit /\ [][AppNext]_vars



(***************************************************************************)
(* Properties of allocatePass                                              *)
(***************************************************************************)
RECURSIVE SumSent(_, _)
SumSent(log, p) ==
  IF log = << >> THEN Zero
  ELSE RAdd(IF Head(log).p = p THEN Head(log).canSend ELSE Zero, SumSent(Tail(log), p))

AllConsumers == processors \o constructionConsumers \o exporters

\* C1: in one allocatePass call the raw amounts a producer sends add up to at
\* most its remaining of the resource before the call, and its remaining is
\* what was there before minus what was sent, never negative.
C1_ProducerConservation ==
  /\ pc = "sweep" =>
       \A i \in DOMAIN producers :
          /\ RLe(SumSent(passLog, i), passStart[i])
          /\ Get(producers[i].remaining, Head(resQueue)) = RSub(passStart[i], SumSent(passLog, i))
  /\ \A i \in DOMAIN producers : \A res \in DOMAIN producers[i].remaining :
        RLe(Zero, producers[i].remaining[res])

\* a pass has ended in which a producer served two consumers and ran dry
C1_Witness ==
  /\ pc = "sweep" /\ idx > Len(pairs)
  /\ \E i \in DOMAIN producers :
        /\ RPos(passStart[i])
        /\ SumSent(passLog, i) = passStart[i]
        /\ Cardinality({k \in DOMAIN passLog : passLog[k].p = i}) >= 2

\* C2: no consumer of any class ever holds more of a resource than it
\* demands.
C2_ReceivedWithinDemand ==
  \A k \in DOMAIN AllConsumers : \A res \in DOMAIN AllConsumers[k].received :
     RLe(AllConsumers[k].received[res], Get(AllConsumers[k].demand, res))

\* a consumer was filled exactly over a path that loses part of what is sent
C2_Witness ==
  /\ pc = "sweep"
  /\ \E e \in {passLog[k] : k \in DOMAIN passLog} :
        /\ RLt(e.transferEff, One)
        /\ RLt(e.delivered, e.canSend)
        /\ Get(consumersOf(phase)[e.c].received, Head(resQueue))
             = Get(consumersOf(phase)[e.c].demand, Head(resQueue))

\* pair a of the list is ranked strictly before pair b by the comparator
RankedBefore(a, b, consumers) ==
  \/ consumers[a.c].prioritized /\ ~consumers[b.c].prioritized
  \/ /\ consumers[a.c].prioritized = consumers[b.c].prioritized
     /\ a.pathCost < b.pathCost

\* C3: a consumer gets something from producer p only when every pair of p
\* ranked before it (prioritized consumer first, then strictly lower path
\* cost within the same priority) has its consumer's demand fully met.
C3_PriorityThenCost ==
  pc = "sweep" =>
    \A k \in DOMAIN passLog : \A j \in DOMAIN pairs :
       (/\ pairs[j].p = passLog[k].p
        /\ RankedBefore(pairs[j], passLog[k], consumersOf(phase)))
         => neededOf(consumersOf(phase)[pairs[j].c], Head(resQueue)) = Zero

\* a producer served a non-prioritized consumer after a prioritized one of
\* its pairs, and after a closer consumer of the same priority
C3_Witness ==
  /\ pc = "sweep"
  /\ \E k \in DOMAIN passLog : \E j1, j2 \in DOMAIN pairs :
        /\ pairs[j1].p = passLog[k].p /\ pairs[j2].p = passLog[k].p
        /\ ~passLog[k].prioritized
        /\ consumersOf(phase)[pairs[j1].c].prioritized
        /\ ~consumersOf(phase)[pairs[j2].c].prioritized
        /\ pairs[j2].pathCost < passLog[k].pathCost

(***************************************************************************)
(* Properties of the passes of a tick                                      *)
(***************************************************************************)
\* some building or infrastructure site still lacks part of its cost of res
SiteDemands(res) ==
  \/ \E c \in DOMAIN grid :
        /\ hasSite(grid[c])
        /\ res \in DOMAIN siteOf(grid[c]).totalCost
        /\ RLt(Get(siteOf(grid[c]).delivered, res), siteOf(grid[c]).totalCost[res])
  \/ \E k \in DOMAIN infraConstructionSites :
        /\ res \in DOMAIN infraConstructionSites[k].totalCost
        /\ RLt(Get(infraConstructionSites[k].delivered, res),
               infraConstructionSites[k].totalCost[res])

IsPrefix(s, t) == Len(s) <= Len(t) /\ \A k \in DOMAIN s : s[k] = t[k]

absorbedOf(i, res) == IF out.absorbed = << >> THEN Zero ELSE Get(out.absorbed[i], res)

\* the reserve still withheld from producer i during the final processor pass
heldOf(i, res) ==
  IF phase = "final" /\ ~producers[i].isBase /\ SiteDemands(res)
    THEN RMul(producers[i].realized[res], CONSTRUCTION_RESERVE)
  ELSE Zero

\* C4: after convergence the classes are served in the order processors,
\* construction, export, depot surplus, all from one capacity: at every
\* moment what a producer has left is its realized output minus what the
\* passes so far sent from it, and a later class has drawn nothing before
\* its turn.
C4_SharedCapacity ==
  /\ IsPrefix(phaseLog, <<"processors", "construction", "export", "depot">>)
  /\ phaseLog # << >> =>
       \A i \in DOMAIN producers : \A res \in DOMAIN producers[i].realized :
          /\ RAdd(RAdd(Get(producers[i].remaining, res), heldOf(i, res)),
                  RAdd(RAdd(Get(sent["processors"][i], res), Get(sent["construction"][i], res)),
                       RAdd(Get(sent["export"][i], res), absorbedOf(i, res))))
               = producers[i].realized[res]
          /\ RLe(Zero, Get(producers[i].remaining, res))
          /\ Len(phaseLog) < 2 => Get(sent["construction"][i], res) = Zero
          /\ Len(phaseLog) < 3 => Get(sent["export"][i], res) = Zero
          /\ Len(phaseLog) < 4 => absorbedOf(i, res) = Zero

\* one producer's output of a resource went to a processor, to a site and
\* into a depot in the same tick
C4_Witness ==
  /\ pc = "return"
  /\ \E i \in DOMAIN producers : \E res \in DOMAIN producers[i].realized :
        /\ RPos(Get(sent["processors"][i], res))
        /\ RPos(Get(sent["construction"][i], res))
        /\ RPos(absorbedOf(i, res))

\* C5: in every convergence round and in the final processor pass the
\* processors draw from at most 90% of a producer's output (potential x
\* efficiency) of a resource some unfinished site still lacks, and from all
\* of its output of any other resource.
C5_ConstructionReserve ==
  (pc \in {"pass", "sweep"} /\ phase \in {"convergence", "final"}) =>
    \A i \in DOMAIN producers : \A res \in DOMAIN producers[i].potential :
       ~producers[i].isBase =>
         LET output == RMul(producers[i].potential[res],
                            effGet(efficiencyByKey, producers[i].key))
             share == IF SiteDemands(res) THEN RMul(output, Q(9, 10)) ELSE output
             drawn == Get(sent["processors"][i], res)
         IN /\ RLe(drawn, share)
            /\ Get(producers[i].remaining, res) = RSub(share, drawn)

\* in the final pass the processors took the whole 90% of a reserved
\* resource and still want more of it, and took all of another resource
C5_Witness ==
  /\ pc = "pass" /\ phase = "final" /\ resQueue = << >>
  /\ \E i \in DOMAIN producers : \E res \in DOMAIN producers[i].potential :
        /\ ~producers[i].isBase /\ SiteDemands(res)
        /\ RPos(producers[i].realized[res])
        /\ Get(sent["processors"][i], res) = RMul(producers[i].realized[res], Q(9, 10))
        /\ \E k \in DOMAIN processors : RPos(neededOf(processors[k], res))
  /\ \E i \in DOMAIN producers : \E res \in DOMAIN producers[i].potential :
        /\ ~producers[i].isBase /\ ~SiteDemands(res)
        /\ RPos(producers[i].realized[res])
        /\ Get(sent["processors"][i], res) = producers[i].realized[res]

\* the smallest satisfaction over the demanded resources of a consumer
MinSatisfaction(c) ==
  LET sats == {IF RPos(c.demand[res]) THEN RMin(One, RDiv(Get(c.received, res), c.demand[res]))
               ELSE One : res \in DOMAIN c.demand} \cup {One}
  IN CHOOSE s \in sats : \A u \in sats : RLe(s, u)

\* max(0.1, min satisfaction) of the building at key from its demand entry
ClaimedEfficiency(key, consumers) ==
  LET cs == consumerAt(consumers, key)
  IN RMax(Q(1, 10), IF cs = << >> THEN One ELSE MinSatisfaction(cs[1]))

EfficiencyInRange ==
  /\ \A key \in DOMAIN efficiencyByKey :
        RLe(Q(1, 10), efficiencyByKey[key]) /\ RLe(efficiencyByKey[key], One)
  /\ phaseLog # << >> =>
       \A i \in DOMAIN producers : \A res \in DOMAIN producers[i].potential :
          ~producers[i].isBase =>
            /\ producers[i].realized[res]
                 = RMul(producers[i].potential[res], efficiencyByKey[producers[i].key])
            /\ RLe(RMul(producers[i].potential[res], Q(1, 10)), producers[i].realized[res])

\* C6 as stated: after the three rounds every operating building's
\* efficiency is max(0.1, min over its demanded resources of
\* min(1, received/demand)) of the last round, within [0.1, 1], and realized
\* output is at least 10% of potential.
C6_EfficiencyOfEveryBuilding ==
  /\ pc = "realize" =>
       \A i \in DOMAIN producers : ~producers[i].isBase =>
          efficiencyByKey[producers[i].key]
            = ClaimedEfficiency(producers[i].key, processors \o exporters)
  /\ EfficiencyInRange

\* C6 amended: the formula holds for every operating building other than an
\* export port; an export port is no processor and its efficiency is 1
\* whatever it received.
C6_EfficiencyOfProcessors ==
  /\ pc = "realize" =>
       \A i \in DOMAIN producers : ~producers[i].isBase =>
          efficiencyByKey[producers[i].key]
            = IF producers[i].buildingId = "export_port" THEN One
              ELSE ClaimedEfficiency(producers[i].key, processors \o exporters)
  /\ EfficiencyInRange

\* after the third round one building sits on the floor with a satisfaction
\* below it and another runs strictly between the floor and 1
C6_Witness ==
  /\ pc = "realize" /\ iter = CONVERGENCE_ITERATIONS
  /\ \E k \in DOMAIN processors :
        /\ RLt(MinSatisfaction(processors[k]), Q(1, 10))
        /\ efficiencyByKey[processors[k].key] = Q(1, 10)
  /\ \E k \in DOMAIN processors :
        /\ RLt(Q(1, 10), efficiencyByKey[processors[k].key])
        /\ RLt(efficiencyByKey[processors[k].key], One)

\* some consumer of any class, other than the building at key, demands res
DemandedByOthers(res, key) ==
  \E k \in DOMAIN AllConsumers :
     AllConsumers[k].key # key /\ RPos(Get(AllConsumers[k].demand, res))

\* C7 as stated: a building none of whose outputs any consumer or site
\* demands ends the tick with efficiency 0 and realized output 0, unless it
\* is an export port, trade depot or station.
C7_UndemandedOutputGated ==
  pc = "return" =>
    \A i \in DOMAIN producers :
       (/\ ~producers[i].isBase
        /\ ~isHubId(producers[i].buildingId)
        /\ DOMAIN producers[i].potential # {}
        /\ \A res \in DOMAIN producers[i].potential : ~DemandedByOthers(res, producers[i].key))
         => /\ effGet(efficiencyByKey, producers[i].key) = Zero
            /\ \A res \in DOMAIN producers[i].realized : producers[i].realized[res] = Zero

\* C8 as stated: a site complete within the tolerance at the start of a tick
\* is converted by that tick, and is not under construction afterwards: the
\* cell holds the target building without a site, the edge carries the
\* target type and the site is gone from the list.
C8_CompleteSitesConvert ==
  pc = "idle" =>
    /\ \A d \in doneAtStart.cells :
          grid[d.cell].buildingId = d.target /\ ~hasSite(grid[d.cell])
    /\ \A d \in doneAtStart.edges :
          /\ edgeHasType(edgeGet(infraEdges, d.edgeKey), d.target)
          /\ \A k \in DOMAIN infraConstructionSites :
                ~(infraConstructionSites[k].edgeKey = d.edgeKey
                    /\ infraConstructionSites[k].targetType = d.target)

\* what a processor received beyond what it consumes at its efficiency
SurplusOf(c, res) ==
  RSub(Get(c.received, res), RMul(Get(c.demand, res), effGet(efficiencyByKey, c.key)))

\* C9 as stated: when the construction pass starts, what a processor
\* received in the final pass beyond demand x efficiency is on offer to the
\* sites at the processor's cell.
C9_SurplusOffered ==
  (/\ pc = "pass" /\ phase = "construction"
   /\ \A i \in DOMAIN producers : sent["construction"][i] = EmptyMap) =>
    \A k \in DOMAIN processors : \A res \in DOMAIN processors[k].received :
       (/\ RPos(SurplusOf(processors[k], res))
        /\ \E s \in DOMAIN constructionConsumers :
              RPos(Get(constructionConsumers[s].demand, res)))
         => \E i \in DOMAIN producers :
               /\ ~producers[i].isBase /\ producers[i].key = processors[k].key
               /\ RLe(SurplusOf(processors[k], res), Get(producers[i].remaining, res))

\* from this path cost on, in hundredths, the transfer efficiency is zero:
\* 1 + 1/0.15 = 7.666...
ZeroFrom == 100 + (10000 \div 15) + 1

\* C10: transferEff is 1 up to path cost 1, never grows with the path cost
\* and is 0 from 1 + 1/0.15 on, for every path cost a distance map can hold
\* (evaluated once, in the initial states); no pair of a pass has efficiency 0, and
\* nothing is sent between a producer and a consumer at such a cost even
\* though the distance map holds it.
C10_TransferFalloff ==
  /\ (pc = "idle" /\ tick = 0) => \A c \in 0..MaxCost :
        /\ c <= 100 => TransferEff(c) = One
        /\ RLe(TransferEff(c + 1), TransferEff(c))
        /\ c >= ZeroFrom => TransferEff(c) = Zero
        /\ RLe(Zero, TransferEff(c)) /\ RLe(TransferEff(c), One)
  /\ \A j \in DOMAIN pairs :
        /\ RPos(pairs[j].transferEff)
        /\ pairs[j].transferEff = TransferEff(pairs[j].pathCost)
        /\ pairs[j].pathCost < ZeroFrom
  /\ \A k \in DOMAIN passLog :
        passLog[k].pathCost < ZeroFrom /\ RPos(passLog[k].delivered)

\* a pass ended in which a producer with stock and a consumer in need were
\* joined in the distance map at a cost of zero efficiency, and nothing
\* went from the one to the other
C10_Witness ==
  /\ pc = "sweep" /\ idx > Len(pairs)
  /\ \E i \in DOMAIN producers : \E k \in DOMAIN consumersOf(phase) :
        /\ ~producers[i].isBase
        /\ RPos(passStart[i])
        /\ RPos(Get(producers[i].remaining, Head(resQueue)))
        /\ RPos(neededOf(consumersOf(phase)[k], Head(resQueue)))
        /\ producers[i].key \in DOMAIN env.distMap
        /\ env.distMap[producers[i].key][consumersOf(phase)[k].key] >= ZeroFrom
        /\ env.distMap[producers[i].key][consumersOf(phase)[k].key] <= MaxCost
        /\ \A e \in DOMAIN passLog : ~(passLog[e].p = i /\ passLog[e].c = k)


(***************************************************************************)
(* Properties of the map analyzers                                         *)
(***************************************************************************)
\* the moves a path may make from a to b: a step between neighbours, a jump
\* between two water ports, a hop between a hub and a cell of its zone
Moves(a, b, edges, ports, overrides, hubZones, category) ==
  (IF b \in NeighborSet(a) THEN {stepCost(edges, getEdgeKey(a, b), category, overrides)} ELSE {})
    \cup (IF a \in ports /\ b \in ports THEN {0} ELSE {})
    \cup (IF \E i \in DOMAIN hubZones :
               \/ hubZones[i].hubKey = a /\ b \in hubZones[i].hexKeys
               \/ hubZones[i].hubKey = b /\ a \in hubZones[i].hexKeys
            THEN {HUB_HOP_COST} ELSE {})

SetMin(S) == CHOOSE x \in S : \A y \in S : x <= y

\* the moves into each cell: <<from, cost>>
MovesInto(cells, edges, ports, overrides, hubZones, category) ==
  [b \in cells |->
     {<<a, SetMin(Moves(a, b, edges, ports, overrides, hubZones, category))>> :
        a \in {x \in cells \ {b} : Moves(x, b, edges, ports, overrides, hubZones, category) # {}}}]

\* least path costs from one source: the fixed point of
\*   d(c) = min(d(c), d(a) + cost of a move from a to c)
RECURSIVE Settle(_, _)
Settle(d, into) ==
  LET nd == [c \in DOMAIN d |-> SetMin({d[c]} \cup {d[m[1]] + m[2] : m \in into[c]})]
  IN IF nd = d THEN d ELSE Settle(nd, into)

LeastCost(s, cells, into) == Settle([c \in cells |-> IF c = s THEN 0 ELSE Infinity], into)

\* least costs cut at the cap
Capped(least, maxCost) == [c \in DOMAIN least |-> IF least[c] <= maxCost THEN least[c] ELSE Infinity]

\* C11: precomputeDistances maps every source that is a cell of the grid to
\* exactly the cells whose least path cost from it (over steps, port jumps
\* and hub hops) is at most maxCost, each with that least cost; a cell
\* whose least cost exceeds maxCost is absent, and so is a source that is no
\* cell
C11_LeastCostsWithinCap ==
  analysis.kind = "distances" =>
    LET exact(into) ==
          /\ DOMAIN analysis.distances =
               {sourcesOf(grid)[i] : i \in DOMAIN sourcesOf(grid)} \cap DOMAIN grid
          /\ \A s \in DOMAIN analysis.distances :
               analysis.distances[s] = Capped(LeastCost(s, DOMAIN grid, into), analysis.maxCost)
    IN exact(MovesInto(DOMAIN grid, infraEdges, portsFor(analysis.args),
                       analysis.args.overrides, zonesFor(analysis.args),
                       analysis.args.category))

\* a capped map whose source reaches a cell over a hub hop and misses a cell
C11_Witness ==
  /\ analysis.kind = "distances"
  /\ analysis.maxCost < MaxCost
  /\ \E s \in DOMAIN analysis.distances :
       /\ \E c \in DOMAIN grid : analysis.distances[s][c] = Infinity
       /\ \E c \in DOMAIN grid : analysis.distances[s][c] = 100 + 2 * HUB_HOP_COST


\* the summed cost of the moves of a path, Infinity when two consecutive
\* cells are joined by no move
RECURSIVE PathCost(_, _, _, _, _, _)
PathCost(path, edges, ports, overrides, hubZones, category) ==
  IF Len(path) <= 1 THEN 0
  ELSE LET moves == Moves(path[1], path[2], edges, ports, overrides, hubZones, category)
           rest == PathCost(Tail(path), edges, ports, overrides, hubZones, category)
       IN IF moves = {} \/ rest = Infinity THEN Infinity ELSE SetMin(moves) + rest

\* C12: findPath returns null when the source or the destination is no cell
\* or the destination is out of reach within maxCost; otherwise it returns
\* cells from the source to the destination whose moves cost in sum what
\* precomputeDistances reports for the pair under the same arguments
C12_PathMatchesDistance ==
  analysis.kind = "paths" =>
    LET agree(ports, zones) ==
          \A pr \in DOMAIN analysis.paths :
            LET path == analysis.paths[pr]
                reported(dm) == distGet(dm, pr[1], pr[2])
                cost == reported(precomputeDistances(<<pr[1]>>, DOMAIN grid, infraEdges,
                                   analysis.maxCost, ports, analysis.args.overrides, zones,
                                   analysis.args.category))
            IN IF pr[1] \notin DOMAIN grid \/ pr[2] \notin DOMAIN grid \/ cost = Infinity
                 THEN path = << >>
               ELSE /\ path # << >>
                    /\ path[1] = pr[1]
                    /\ path[Len(path)] = pr[2]
                    /\ PathCost(path, infraEdges, ports, analysis.args.overrides, zones,
                                analysis.args.category) = cost
    IN agree(portsFor(analysis.args), zonesFor(analysis.args))

\* paths of one map: one pair of cells out of reach within the cap, one
\* path that leaves the grid steps for a jump or a hop
C12_Witness ==
  /\ analysis.kind = "paths"
  /\ \E pr \in DOMAIN analysis.paths :
       pr[1] \in DOMAIN grid /\ pr[2] \in DOMAIN grid /\ analysis.paths[pr] = << >>
  /\ \E pr \in DOMAIN analysis.paths :
       /\ Len(analysis.paths[pr]) >= 3
       /\ \E i \in 1..(Len(analysis.paths[pr]) - 1) :
            analysis.paths[pr][i + 1] \notin NeighborSet(analysis.paths[pr][i])


\* the operating hubs of the grid and the hubs whose radius covers a cell
OperatingHubs == {c \in DOMAIN grid : isOperating(grid, c) /\ isHubBuilding(operatingId(grid, c))}

Covering(c) == {h \in OperatingHubs : hexDistance(c, h) <= HUB_RADIUS(operatingId(grid, h))}

\* a covering hub at least distance, the smaller key string among equals
Nearest(c) ==
  CHOOSE h \in Covering(c) :
    \A o \in Covering(c) \ {h} :
      \/ hexDistance(c, h) < hexDistance(c, o)
      \/ (hexDistance(c, h) = hexDistance(c, o) /\ StrLess(hexKey(h), hexKey(o)))

\* C13: the hub zones of a tick are pairwise disjoint; there is one zone per
\* operating hub; a cell of the grid covered by some operating hub is in
\* the zone of exactly one hub, a covering hub at least hex distance and of
\* the smaller key among those; a cell covered by none is in no zone; the
\* cell of a hub is in the hub's own zone
C13_ZonesPartitionByNearestHub ==
  analysis.kind = "hubs" =>
    LET zones == analysis.hubZones
    IN /\ {zones[i].hubKey : i \in DOMAIN zones} = OperatingHubs
       /\ \A i \in DOMAIN zones, j \in DOMAIN zones :
            i # j => zones[i].hexKeys \cap zones[j].hexKeys = {}
       /\ \A c \in DOMAIN grid, i \in DOMAIN zones :
            c \in zones[i].hexKeys <=> (Covering(c) # {} /\ Nearest(c) = zones[i].hubKey)
       /\ \A i \in DOMAIN zones : zones[i].hexKeys \subseteq DOMAIN grid
       /\ \A i \in DOMAIN zones : zones[i].hubKey \in zones[i].hexKeys

\* overlapping radii: a cell as near to the hub of its zone as to another
\* hub whose column is the smaller number, and a cell covered by two hubs at
\* different distances
C13_Witness ==
  /\ analysis.kind = "hubs"
  /\ \E c \in DOMAIN grid : \E o \in Covering(c) :
       /\ o # Nearest(c)
       /\ hexDistance(c, o) = hexDistance(c, Nearest(c))
       /\ o[1] < Nearest(c)[1]
  /\ \E c \in DOMAIN grid : \E o \in Covering(c) :
       hexDistance(c, o) > hexDistance(c, Nearest(c))


\* the operating trade depots that are sources of the distance map, and the
\* cells at hex distance 2 in the zone of one that hold a consumer
DepotSources ==
  {h \in DOMAIN analysis.distances : operatingId(grid, h) = "trade_depot"}

ConsumersAtTwo(h) ==
  {c \in DOMAIN grid : /\ hexDistance(c, h) = 2
                       /\ Nearest(c) = h
                       /\ grid[c].buildingId # "none"
                       /\ BUILDINGS(grid[c].buildingId).inputs # << >>}

HubDistances ==
  analysis.kind = "distances" /\ analysis.args.zones /\ DOMAIN infraEdges = {}

\* C14 as stated: without infrastructure the path cost between a trade depot
\* and a consumer at hex distance 2 inside the depot's zone is 0.1
C14_DepotToConsumerTwoHops ==
  HubDistances =>
    \A h \in DepotSources : \A c \in ConsumersAtTwo(h) :
      analysis.distances[h][c] = 2 * HUB_HOP_COST

\* C14 amended: that cost is one hop, 0.05, at whatever distance inside the
\* zone; 0.1 is the cost between two cells of the zone that are neither the
\* hub nor neighbours nor water ports, by way of the hub
C14_DepotToConsumerOneHop ==
  HubDistances =>
    /\ \A h \in DepotSources : \A c \in ConsumersAtTwo(h) :
         analysis.distances[h][c] = HUB_HOP_COST
    /\ \A a \in DOMAIN analysis.distances : \A c \in DOMAIN grid \ OperatingHubs :
         (/\ a \notin OperatingHubs
          /\ c # a
          /\ Covering(a) # {} /\ Covering(c) # {}
          /\ Nearest(a) = Nearest(c))
           => analysis.distances[a][c] = 2 * HUB_HOP_COST

\* a depot with a consumer two cells away in its zone, and a producer of the
\* same zone, on a map without infrastructure
C14_Witness ==
  /\ HubDistances
  /\ \E h \in DepotSources : \E c \in ConsumersAtTwo(h) :
       /\ analysis.distances[h][c] = HUB_HOP_COST
       /\ \E a \in DOMAIN analysis.distances \ OperatingHubs :
            a # c /\ Covering(a) # {} /\ Nearest(a) = h /\ analysis.distances[a][c] = 2 * HUB_HOP_COST


\* the efficiencies of the step from a cell to a neighbour: that of the
\* transport type on the edge, and 1.0 into a water cell
StepValues(from, to) ==
  LET ek == getEdgeKey(from, to)
      tr == IF ek \in DOMAIN infraEdges THEN infraEdges[ek].transport ELSE "none"
  IN (IF tr = "road" THEN {<<1, 2>>} ELSE IF tr = "rail" THEN {<<7, 10>>}
      ELSE IF tr = "canal" THEN {One} ELSE {})
       \cup (IF hasWater(to) THEN {One} ELSE {})

RMaxOf(S) == IF S = {} THEN Zero ELSE CHOOSE e \in S : \A f \in S : RLe(f, e)

\* the best over the paths from c to a map-edge cell that avoid the visited
\* cells of the least step efficiency on the path; One stands for the path
\* without steps
RECURSIVE Widest(_, _)
Widest(c, visited) ==
  IF isAtMapEdge(grid, c) THEN One
  ELSE RMaxOf({RMin(RMaxOf(StepValues(c, n)), Widest(n, visited \cup {n})) :
                 n \in {x \in (NeighborSet(c) \cap DOMAIN grid) \ visited :
                          StepValues(c, x) # {}}})

\* the flow state simulateTick wrote for a cell, and the sum of the exports
\* the flow states record for a resource
flowStateAt(c) == out.nextGrid[c].flowState[1]

RECURSIVE SumExports(_, _)
SumExports(cells, res) ==
  IF cells = {} THEN Zero
  ELSE LET c == CHOOSE x \in cells : TRUE
       IN RAdd(Get(flowStateAt(c).exports, res), SumExports(cells \ {c}, res))

\* C15: getExportEfficiency is 1.0 for a map-edge cell, otherwise the largest
\* over the paths to a map-edge cell of the least step efficiency (road 0.5,
\* rail 0.7, canal 1.0, into water 1.0, no step otherwise), 0 without such a
\* path; in a tick a hub whose export efficiency is 0 exports nothing, and
\* exportRate is made up of the exports of the hubs with a route only
C15_ExportEfficiencyIsWidestPath ==
  /\ analysis.kind = "export" =>
       \A c \in DOMAIN grid : analysis.efficiency[c] = Widest(c, {c})
  /\ pc = "return" =>
       LET hubs == {c \in DOMAIN grid : out.nextGrid[c].flowState # << >>
                                          /\ isHubId(operatingId(grid, c))}
       IN /\ \A c \in hubs :
               /\ flowStateAt(c).exportEfficiency = Widest(c, {c})
               /\ ~RPos(Widest(c, {c})) =>
                    \A res \in DOMAIN flowStateAt(c).exports :
                      ~RPos(flowStateAt(c).exports[res])
          /\ \A i \in DOMAIN ALL_EXPORTABLE_RESOURCES :
               Get(out.exportRate, ALL_EXPORTABLE_RESOURCES[i])
                 = SumExports({c \in hubs : RPos(Widest(c, {c}))}, ALL_EXPORTABLE_RESOURCES[i])

\* a tick on an inland map: the port has no route and exports none of the
\* goods it received, the depot has a road to the rim and exports stone
C15_Witness ==
  /\ pc = "return"
  /\ PatchCenter \in DOMAIN grid
  /\ out.nextGrid[PatchCenter].flowState # << >>
  /\ operatingId(grid, PatchCenter) = "export_port"
  /\ flowStateAt(PatchCenter).exportEfficiency = Zero
  /\ RPos(Get(flowStateAt(PatchCenter).consumed, "goods"))
  /\ ~RPos(Get(out.exportRate, "goods"))
  /\ \E c \in DOMAIN grid :
       /\ out.nextGrid[c].flowState # << >>
       /\ operatingId(grid, c) = "trade_depot"
       /\ flowStateAt(c).exportEfficiency = <<1, 2>>
       /\ RPos(Get(out.exportRate, "stone"))


\* u is a higher tier of t: t upgrades to it in one or more steps
RECURSIVE HigherTier(_, _)
HigherTier(u, t) ==
  /\ t \in BuildingIds
  /\ BUILDINGS(t).upgradesTo # "none"
  /\ (u = BUILDINGS(t).upgradesTo \/ HigherTier(u, BUILDINGS(t).upgradesTo))

\* the cells that can carry the cluster of the building at c: buildings of
\* its type, hubs, and higher tiers of its type
Carriers(c) ==
  {x \in DOMAIN grid :
     \/ grid[x].buildingId = grid[c].buildingId
     \/ isHubBuilding(grid[x].buildingId)
     \/ HigherTier(grid[x].buildingId, grid[c].buildingId)}

\* steps from c inside its carriers: Infinity for a cell outside the cluster
StepsInside(c) ==
  LeastCost(c, Carriers(c), [b \in Carriers(c) |-> {<<a, 1>> : a \in NeighborSet(b) \cap Carriers(c)}])

RECURSIVE Halves(_)
Halves(d) == IF d <= 1 THEN One ELSE RMul(<<1, 2>>, Halves(d - 1))

RECURSIVE SumOver(_, _)
SumOver(S, steps) ==
  IF S = {} THEN Zero
  ELSE LET x == CHOOSE y \in S : TRUE
       IN RAdd(Halves(steps[x]), SumOver(S \ {x}, steps))

\* the bonus the claim gives the non-hub building at c
ClaimedClusterBonus(c) ==
  LET score(steps) == SumOver({x \in DOMAIN steps : x # c /\ steps[x] < Infinity}, steps)
      quantized(sc) == IF RLe(<<5, 1>>, sc) THEN One
                       ELSE IF RLe(<<3, 1>>, sc) THEN <<1, 2>>
                       ELSE IF RLe(<<2, 1>>, sc) THEN <<1, 4>>
                       ELSE IF RLe(One, sc) THEN <<1, 10>>
                       ELSE Zero
  IN quantized(score(StepsInside(c)))

NonHubBuildings ==
  {c \in DOMAIN grid : grid[c].buildingId # "none" /\ ~isHubBuilding(grid[c].buildingId)}

\* C16: the cluster bonus of a non-hub building is the quantization of the
\* sum, over the other cells of its cluster (joined through buildings of
\* its type, hubs and higher tiers of its type), of 0.5^(d-1) for the steps d
\* inside the cluster; it is 0 for a cluster of one cell; a higher-tier
\* building that joins a cluster of the lower tier gets the bonus of the
\* cluster of its own type only
C16_ClusterBonusQuantized ==
  analysis.kind = "clusters" =>
    \A c \in NonHubBuildings :
      /\ analysis.clusters[c].bonus = ClaimedClusterBonus(c)
      /\ analysis.clusters[c].size = 1 => analysis.clusters[c].bonus = Zero

\* a cluster whose centre scores 5 or more, joined by a higher-tier building
\* to another cell of the lower tier; the higher-tier building has bonus 0
C16_Witness ==
  /\ analysis.kind = "clusters"
  /\ analysis.clusters[PatchCenter].bonus = One
  /\ \E c \in NonHubBuildings :
       /\ HigherTier(grid[c].buildingId, grid[PatchCenter].buildingId)
       /\ c \in NeighborSet(PatchCenter)
       /\ analysis.clusters[c] = [size |-> 1, bonus |-> Zero]
       /\ \E x \in NonHubBuildings :
            /\ grid[x].buildingId = grid[PatchCenter].buildingId
            /\ x \notin NeighborSet(PatchCenter)
            /\ RPos(analysis.clusters[x].bonus)


\* the cells that can carry a zone of category zt: unpaused buildings
\* without construction site of the category, universities and hubs
ZoneCarriers(zt) ==
  {x \in DOMAIN grid :
     /\ grid[x].buildingId # "none"
     /\ grid[x].constructionSite = << >>
     /\ ~grid[x].paused
     /\ (grid[x].buildingId = "university" \/ isHubBuilding(grid[x].buildingId)
           \/ buildingToZone(grid[x].buildingId) = zt)}

\* the component of category zt around c, a carrier of zt
ZoneAround(c, zt) ==
  LET inside(steps) == {x \in DOMAIN steps : steps[x] < Infinity}
  IN inside(LeastCost(c, ZoneCarriers(zt),
                      [b \in ZoneCarriers(zt) |->
                         {<<a, 1>> : a \in NeighborSet(b) \cap ZoneCarriers(zt)}]))

Ordinary(S) ==
  {x \in S : grid[x].buildingId # "university" /\ ~isHubBuilding(grid[x].buildingId)}

\* the bonus the claim gives a component
ClaimedZoneBonus(comp) ==
  LET n == Cardinality(Ordinary(comp))
      types == Cardinality({grid[x].buildingId : x \in Ordinary(comp)})
  IN IF n < 21 \/ types < 2 THEN Zero ELSE RMin(One, Q(n - 21, 21))

\* C17: a zone component (unpaused cells without construction site whose
\* building is in the category, a university or a hub) has bonus 0 below 21
\* ordinary members or below 2 ordinary building types and otherwise
\* min(1, (n - 21) / 21); seen at every ordinary member, which lies in the
\* component of its own category only
C17_ZoneBonusThresholds ==
  analysis.kind = "zones" =>
    LET agrees(c, comp) ==
          /\ analysis.superclusters[c].bonus = ClaimedZoneBonus(comp)
          /\ analysis.superclusters[c].size = Cardinality(Ordinary(comp))
    IN \A zt \in ZoneTypeNames : \A c \in Ordinary(ZoneCarriers(zt)) :
         agrees(c, ZoneAround(c, zt))

\* a component of 22 ordinary members of two types: bonus 1/21
C17_Witness ==
  /\ analysis.kind = "zones"
  /\ \E c \in DOMAIN grid :
       /\ analysis.superclusters[c].size = 22
       /\ analysis.superclusters[c].bonus = <<1, 21>>
       /\ ~isHubBuilding(grid[c].buildingId)


\* the categories in whose components the cell c lies
CategoriesOf(c) == {zt \in ZoneTypeNames : c \in ZoneCarriers(zt)}

\* C18: the zone bonus recorded for a cell is the largest of the bonuses of
\* the components, over the four categories, that contain the cell
C18_BestBonusRecorded ==
  analysis.kind = "zones" =>
    \A c \in DOMAIN grid :
      CategoriesOf(c) # {} =>
        analysis.superclusters[c].bonus =
          RMaxOf({ClaimedZoneBonus(ZoneAround(c, zt)) : zt \in CategoriesOf(c)})


(***************************************************************************)
(* Properties of simulateTick as a function of its arguments               *)
(***************************************************************************)
\* the call that is about to return was given the arguments of the call kept
SameArguments ==
  /\ pc = "return"
  /\ analysis.kind = "call"
  /\ analysis.grid = grid
  /\ analysis.infraEdges = infraEdges
  /\ analysis.infraConstructionSites = infraConstructionSites

C26_DistancesSymmetric ==
  analysis.kind = "distances" =>
    \A a \in DOMAIN analysis.distances : \A b \in DOMAIN analysis.distances :
      analysis.distances[a][b] = analysis.distances[b][a]

\* two sources joined over a hub hop and two sources out of each other's
\* reach under the cap
C26_Witness ==
  /\ analysis.kind = "distances"
  /\ \E a \in DOMAIN analysis.distances : \E b \in DOMAIN analysis.distances :
       /\ a # b
       /\ analysis.distances[a][b] = 2 * HUB_HOP_COST
  /\ \E a \in DOMAIN analysis.distances : \E b \in DOMAIN analysis.distances :
       analysis.distances[a][b] = Infinity


(***************************************************************************)
(* Further properties of a tick                                            *)
(***************************************************************************)
\* the demands of the infrastructure sites, in the order of the sites
InfraDemands == SelectSeq(constructionConsumers, LAMBDA d : d.buildingId = "infra")

\* what site k holds after the deliveries of the tick
DeliveredAfter(k) ==
  newDeliveredOf(infraConstructionSites[k], InfraDemands[k].received)

\* C27: when simulateTick returns, every infrastructure site that the tick
\* did not complete is in the returned list exactly once, with its own
\* target type and total cost and with its own delivered plus what it
\* received; a site the tick completed has set its target type on its edge
C27_SitesTrackedApart ==
  pc = "return" =>
    \A k \in DOMAIN infraConstructionSites :
      LET site == infraConstructionSites[k]
          kept == {j \in DOMAIN out.nextInfraConstructionSites :
                     /\ out.nextInfraConstructionSites[j].edgeKey = site.edgeKey
                     /\ out.nextInfraConstructionSites[j].targetType = site.targetType}
      IN IF allComplete(site, DeliveredAfter(k))
           THEN /\ kept = {}
                /\ edgeHasType(edgeGet(out.nextInfraEdges, site.edgeKey), site.targetType)
         ELSE /\ Cardinality(kept) = 1
              /\ \A j \in kept :
                   /\ out.nextInfraConstructionSites[j].totalCost = site.totalCost
                   /\ out.nextInfraConstructionSites[j].delivered = DeliveredAfter(k)


\* delivered stays within the cost of the site
WithinCost(site) ==
  \A res \in DOMAIN site.totalCost : RLe(Get(site.delivered, res), site.totalCost[res])

\* nothing of `before` is more than in `after`
NotLess(before, after) ==
  \A res \in DOMAIN before : RLe(before[res], Get(after, res))

\* the demand of the building site on cell c
SiteDemandOf(c) ==
  SelectSeq(constructionConsumers, LAMBDA d : d.siteKey = c)[1]

\* C29: what a construction site holds never exceeds its cost, and when
\* simulateTick returns, a site that is still unfinished holds what it held
\* before plus exactly what it received in the tick, which is never less
C29_DeliveredGrows ==
  /\ \A c \in DOMAIN grid : hasSite(grid[c]) => WithinCost(siteOf(grid[c]))
  /\ \A k \in DOMAIN infraConstructionSites : WithinCost(infraConstructionSites[k])
  /\ pc = "return" =>
       /\ \A c \in DOMAIN grid :
            (hasSite(grid[c]) /\ hasSite(out.nextGrid[c])) =>
               /\ siteOf(out.nextGrid[c]).delivered =
                    newDeliveredOf(siteOf(grid[c]), SiteDemandOf(c).received)
               /\ NotLess(siteOf(grid[c]).delivered, siteOf(out.nextGrid[c]).delivered)
       /\ \A k \in DOMAIN infraConstructionSites :
            LET site == infraConstructionSites[k]
            IN ~allComplete(site, DeliveredAfter(k)) =>
                 \E j \in DOMAIN out.nextInfraConstructionSites :
                    LET after == out.nextInfraConstructionSites[j]
                    IN /\ after.edgeKey = site.edgeKey
                       /\ after.targetType = site.targetType
                       /\ after.delivered = DeliveredAfter(k)
                       /\ NotLess(site.delivered, after.delivered)


\* processor k could be served resource res by producer i: the pair
\* allocatePass builds for them has a transfer efficiency above zero
PairedFor(i, k, res) ==
  LET cost == pairCost(producers[i], processors[k], distMapFor("final", res), EmptyMap)
  IN /\ ~(~producers[i].isBase /\ producers[i].key = processors[k].key)
     /\ cost # Infinity
     /\ RPos(TransferEff(cost))

\* what producer i gave to export ports, depots and stations in this tick
ExportedFrom(i, res) ==
  RAdd(Get(sent["export"][i], res), Get(out.absorbed[i], res))

\* C28: when simulateTick returns, no producer has given a resource to an
\* export port, depot or station while a processor paired with it for that
\* resource ended the final processor pass short of its demand
C28_ExportAfterProcessors ==
  pc = "return" =>
    \A i \in DOMAIN producers : \A res \in DOMAIN producers[i].realized :
       RPos(ExportedFrom(i, res)) =>
          \A k \in DOMAIN processors :
             ~(PairedFor(i, k, res) /\ RPos(neededOf(processors[k], res)))


\* what the ledger books as used or lost of a resource
UsedOrLost(res) ==
  RAdd(Get(out.summary.consumed, res), Get(out.summary.lostToDistance, res))

\* C30: when simulateTick returns, the flow summary books for no resource
\* more as consumed and lost to distance than it books as realized
C30_LedgerConserves ==
  pc = "return" =>
    \A res \in DOMAIN out.summary.consumed \cup DOMAIN out.summary.lostToDistance :
       RLe(UsedOrLost(res), Get(out.summary.realized, res))

\* a tick in which a depot absorbed a surplus, a construction site received
\* a resource under reserve and a processor lost some of it on the way
C30_Witness ==
  /\ pc = "return"
  /\ \E res \in DOMAIN out.summary.lostToDistance :
        /\ res \in env.constructionResources
        /\ RPos(out.summary.lostToDistance[res])
        /\ UsedOrLost(res) = Get(out.summary.realized, res)
        /\ \E i \in DOMAIN producers : RPos(Get(out.absorbed[i], res))
        /\ \E k \in DOMAIN constructionConsumers :
              RPos(Get(constructionConsumers[k].received, res))


\* one step of an export route: neighbouring cells joined by transport
\* infrastructure, or a step into water
ExportStep(from, to) ==
  /\ to \in NeighborSet(from)
  /\ RPos(getStepEfficiency(infraEdges, from, to))

\* C25: a path that getExportPath returns starts at the export building's
\* own cell, ends at a map-edge cell, and every two consecutive cells of it
\* are neighbours joined by transport infrastructure or by a step into water
C25_ExportPathShape ==
  analysis.kind = "exportPath" =>
    \A c \in DOMAIN analysis.paths :
       LET path == analysis.paths[c]
       IN path # << >> =>
            /\ path[1] = c
            /\ isAtMapEdge(grid, path[Len(path)])
            /\ \A k \in 1..(Len(path) - 1) : ExportStep(path[k], path[k + 1])


(***************************************************************************)
(* Properties of the worker and of the merge                               *)
(***************************************************************************)
\* the worker is done with request id
Handled(id) == id < app.current \/ (id = app.current /\ pc = "wait")

\* C21: the worker has posted exactly one reply for every request it is
\* done with and none for the others; the reply to a request whose tick
\* threw carries the request's grid, infraEdges and infraConstructionSites
\* unchanged and an empty flowSummary, exportRate and routeData
C21_OneReplyPerRequest ==
  /\ \A id \in 1..MaxPosts : app.replied[id] = IF Handled(id) THEN 1 ELSE 0
  /\ \A k \in DOMAIN app.log :
        app.log[k].threw =>
           /\ app.log[k].reply.grid = app.log[k].request.grid
           /\ app.log[k].reply.infraEdges = app.log[k].request.infraEdges
           /\ app.log[k].reply.infraConstructionSites =
                app.log[k].request.infraConstructionSites
           /\ app.log[k].reply.flowSummary = emptyFlowSummary
           /\ app.log[k].reply.exportRate = EmptyMap
           /\ app.log[k].reply.routeData = << >>

\* two requests answered, the second after a throw on a map the user had
\* edited
C21_Witness ==
  /\ pc = "wait"
  /\ app.replied[MaxPosts] = 1
  /\ \E k \in DOMAIN app.log :
        /\ app.log[k].threw
        /\ app.log[k].request.grid # GridOf(<<Hex(UnknownId), Hex("wood_camp")>>, <<"none", 0>>)


\* a cell holds a building, or a site for a new building and no building, or
\* an upgrade site and the building that is being upgraded
Coherent(hex) ==
  hasSite(hex) =>
     IF siteOf(hex).isUpgrade THEN hex.buildingId = siteOf(hex).previousBuildingId
     ELSE hex.buildingId = "none"

\* C22: in every state reached by building, upgrading, demolishing,
\* cancelling and ticks, no cell of the game state or of a reply holds a
\* contradictory combination, and a cell whose site a tick completed holds
\* the site's target building and no site
C22_CellsCoherent ==
  /\ \A c \in DOMAIN app.grid : Coherent(app.grid[c])
  /\ \A k \in DOMAIN app.log :
        \A c \in DOMAIN app.log[k].reply.grid :
           LET before == app.log[k].request.grid[c]
               after == app.log[k].reply.grid[c]
           IN /\ Coherent(after)
              /\ (hasSite(before) /\ ~hasSite(after)) =>
                    after.buildingId = siteOf(before).targetBuildingId

\* a tick completed a site, the converted cell was merged, and the user has
\* since started an upgrade on one cell and a new building on another
C22_Witness ==
  /\ app.merged >= 1
  /\ \E k \in DOMAIN app.log : \E c \in DOMAIN app.grid :
        /\ hasSite(app.log[k].request.grid[c])
        /\ ~hasSite(app.log[k].reply.grid[c])
        /\ app.grid[c].buildingId = siteOf(app.log[k].request.grid[c]).targetBuildingId
  /\ \E c \in DOMAIN app.grid : hasSite(app.grid[c]) /\ siteOf(app.grid[c]).isUpgrade
  /\ \E c \in DOMAIN app.grid : hasSite(app.grid[c]) /\ ~siteOf(app.grid[c]).isUpgrade


\* the user's version of the cell differs from the one posted with the request
EditedSince(cur, posted) ==
  \/ cur.buildingId # posted.buildingId
  \/ cur.constructionSite # posted.constructionSite
  \/ cur.paused # posted.paused
  \/ cur.prioritized # posted.prioritized

\* C23: whatever the interleaving of requests, edits and replies, a cell whose
\* buildingId, constructionSite, paused or prioritized the user changed
\* between the posting of a request and the merge of its reply holds the
\* user's version after that merge
C23_CellEditsSurvive ==
  app.lastMerge.id > 0 =>
     \A c \in app.lastMerge.cells :
        LET posted == app.log[app.lastMerge.id].request.grid[c]
            cur == app.lastMerge.before[c]
            new == app.lastMerge.after[c]
        IN EditedSince(cur, posted) =>
              /\ new.buildingId = cur.buildingId
              /\ new.constructionSite = cur.constructionSite
              /\ new.paused = cur.paused
              /\ new.prioritized = cur.prioritized

\* what the user's last action on a category of an edge asks of the merged
\* infrastructure
Survives(ek, category, op, edges, sites) ==
  /\ op.edge = "added" => subTypeOf(edgeGet(edges, ek), category) = op.type
  /\ op.edge = "removed" => subTypeOf(edgeGet(edges, ek), category) = "none"
  /\ op.site = "started" => siteOn(sites, ek, category)
  /\ op.site = "cancelled" => ~siteOn(sites, ek, category)

\* C24: after the merge of a reply, an edge or sub-type the user added since
\* the request was posted is present, one they removed is absent, a site
\* they started is present and one they cancelled is absent
C24_InfraEditsSurvive ==
  app.lastMerge.id > 0 =>
     \A k \in DOMAIN app.lastMerge.infraOps :
        Survives(k[1], k[2], app.lastMerge.infraOps[k],
                 app.lastMerge.infraEdges, app.lastMerge.infraConstructionSites)

====
